---- MODULE Spec2Model ----
(***************************************************************************)
(* A model of quiz.py: the interactive country quiz.  The session is one   *)
(* run of main(): a chain of configuration prompts, the derivation of the  *)
(* question/answer lists, the number-of-options prompt and the quiz loop.  *)
(*                                                                         *)
(* Data strings (country names, capitals, regions, input lines) are        *)
(* sequences of Unicode code points, so that splitting, stripping, sorting *)
(* and joining are computed as Python computes them.  The fixed menu texts *)
(* of the configuration prompts are TLA+ strings.                          *)
(***************************************************************************)
EXTENDS Integers, Sequences, FiniteSets, TLC

\* ------------------------------------------------------------------ bounds

\* the quiz accepts wrong answers only while n_mistakes < MaxMistakes
MaxMistakes == 2

\* ------------------------------------------------------- program constants

MAX_N_OPTS == 8
\* DELIM = ','
DELIM == 44
\* NONE = '-'
NONE == <<45>>

\* ------------------------------------------------------------ code points

SPACE == 32

\* the characters str.isspace() holds for; str.strip() removes them
Whitespace ==
    (9..13) \cup (28..32) \cup (8192..8202) \cup (8232..8233) \cup
    {133, 160, 5760, 8239, 8287, 12288}

\* the blanks int() and float() skip around a numeral: of the ASCII
\* characters only \t \n \v \f \r and the space
NumberSpace == Whitespace \ (28..31)

\* the zeros of the decimal digits (category Nd); the digits 1 to 9 of a
\* script follow its zero
DecimalZeros ==
    {48, 1632, 1776, 1984, 2406, 2534, 2662, 2790, 2918, 3046, 3174, 3302,
    3430, 3558, 3664, 3792, 3872, 4160, 4240, 6112, 6160, 6470, 6608, 6784,
    6800, 6992, 7088, 7232, 7248, 42528, 43216, 43264, 43472, 43504, 43600,
    44016, 65296, 66720, 68912, 69734, 69872, 69942, 70096, 70384, 70736,
    70864, 71248, 71360, 71472, 71904, 72016, 72784, 73040, 73120, 92768,
    92864, 93008, 120782, 120792, 120802, 120812, 120822, 123200, 123632,
    125264, 130032}

\* the characters int() reads as a digit
Digits == UNION {z..(z + 9) : z \in DecimalZeros}

\* the digit a decimal digit stands for
DigitValue(c) ==
    IF c \in 48..57 THEN c - 48
    ELSE c - (CHOOSE z \in DecimalZeros : c \in z..(z + 9))

\* the characters for which str.isdigit() holds but int() raises: the
\* superscript, subscript, circled and other digits that are no decimal digits
SuperDigits ==
    (178..179) \cup (4969..4977) \cup (8308..8313) \cup (8320..8329) \cup
    (9312..9320) \cup (9332..9340) \cup (9352..9360) \cup
    (9461..9469) \cup (10102..10110) \cup (10112..10120) \cup
    (10122..10130) \cup (68160..68163) \cup (69216..69224) \cup
    (69714..69722) \cup (127232..127242) \cup
    {185, 6618, 8304, 9450, 9471}

\* --------------------------------------------- Unicode character database

\* the runs <<first, last>> of the characters of category Mn (nonspacing mark)
\* with a canonical combining class other than 0
MnCombining == <<
    <<768,846>>, <<848,879>>, <<1155,1159>>, <<1425,1469>>, <<1471,1471>>,
    <<1473,1474>>, <<1476,1477>>, <<1479,1479>>, <<1552,1562>>, <<1611,1631>>,
    <<1648,1648>>, <<1750,1756>>, <<1759,1764>>, <<1767,1768>>, <<1770,1773>>,
    <<1809,1809>>, <<1840,1866>>, <<2027,2035>>, <<2045,2045>>, <<2070,2073>>,
    <<2075,2083>>, <<2085,2087>>, <<2089,2093>>, <<2137,2139>>, <<2200,2207>>,
    <<2250,2273>>, <<2275,2303>>, <<2364,2364>>, <<2381,2381>>, <<2385,2388>>,
    <<2492,2492>>, <<2509,2509>>, <<2558,2558>>, <<2620,2620>>, <<2637,2637>>,
    <<2748,2748>>, <<2765,2765>>, <<2876,2876>>, <<2893,2893>>, <<3021,3021>>,
    <<3132,3132>>, <<3149,3149>>, <<3157,3158>>, <<3260,3260>>, <<3277,3277>>,
    <<3387,3388>>, <<3405,3405>>, <<3530,3530>>, <<3640,3642>>, <<3656,3659>>,
    <<3768,3770>>, <<3784,3787>>, <<3864,3865>>, <<3893,3893>>, <<3895,3895>>,
    <<3897,3897>>, <<3953,3954>>, <<3956,3956>>, <<3962,3965>>, <<3968,3968>>,
    <<3970,3972>>, <<3974,3975>>, <<4038,4038>>, <<4151,4151>>, <<4153,4154>>,
    <<4237,4237>>, <<4957,4959>>, <<5908,5908>>, <<6098,6098>>, <<6109,6109>>,
    <<6313,6313>>, <<6457,6459>>, <<6679,6680>>, <<6752,6752>>, <<6773,6780>>,
    <<6783,6783>>, <<6832,6845>>, <<6847,6862>>, <<6964,6964>>, <<7019,7027>>,
    <<7083,7083>>, <<7142,7142>>, <<7223,7223>>, <<7376,7378>>, <<7380,7392>>,
    <<7394,7400>>, <<7405,7405>>, <<7412,7412>>, <<7416,7417>>, <<7616,7679>>,
    <<8400,8412>>, <<8417,8417>>, <<8421,8432>>, <<11503,11505>>,
    <<11647,11647>>, <<11744,11775>>, <<12330,12333>>, <<12441,12442>>,
    <<42607,42607>>, <<42612,42621>>, <<42654,42655>>, <<42736,42737>>,
    <<43014,43014>>, <<43052,43052>>, <<43204,43204>>, <<43232,43249>>,
    <<43307,43309>>, <<43443,43443>>, <<43696,43696>>, <<43698,43700>>,
    <<43703,43704>>, <<43710,43711>>, <<43713,43713>>, <<43766,43766>>,
    <<44013,44013>>, <<64286,64286>>, <<65056,65071>>, <<66045,66045>>,
    <<66272,66272>>, <<66422,66426>>, <<68109,68109>>, <<68111,68111>>,
    <<68152,68154>>, <<68159,68159>>, <<68325,68326>>, <<68900,68903>>,
    <<69291,69292>>, <<69446,69456>>, <<69506,69509>>, <<69702,69702>>,
    <<69744,69744>>, <<69759,69759>>, <<69817,69818>>, <<69888,69890>>,
    <<69939,69940>>, <<70003,70003>>, <<70090,70090>>, <<70198,70198>>,
    <<70377,70378>>, <<70459,70460>>, <<70502,70508>>, <<70512,70516>>,
    <<70722,70722>>, <<70726,70726>>, <<70750,70750>>, <<70850,70851>>,
    <<71103,71104>>, <<71231,71231>>, <<71351,71351>>, <<71467,71467>>,
    <<71737,71738>>, <<71998,71998>>, <<72003,72003>>, <<72160,72160>>,
    <<72244,72244>>, <<72263,72263>>, <<72345,72345>>, <<72767,72767>>,
    <<73026,73026>>, <<73028,73029>>, <<73111,73111>>, <<92912,92916>>,
    <<92976,92982>>, <<113822,113822>>, <<119143,119145>>, <<119163,119170>>,
    <<119173,119179>>, <<119210,119213>>, <<119362,119364>>,
    <<122880,122886>>, <<122888,122904>>, <<122907,122913>>,
    <<122915,122916>>, <<122918,122922>>, <<123184,123190>>,
    <<123566,123566>>, <<123628,123631>>, <<125136,125142>>, <<125252,125258>>
>>

\* the runs of the characters of category Mn with canonical combining class 0
MnStarters == <<
    <<847,847>>, <<1958,1968>>, <<2304,2306>>, <<2362,2362>>, <<2369,2376>>,
    <<2389,2391>>, <<2402,2403>>, <<2433,2433>>, <<2497,2500>>, <<2530,2531>>,
    <<2561,2562>>, <<2625,2626>>, <<2631,2632>>, <<2635,2636>>, <<2641,2641>>,
    <<2672,2673>>, <<2677,2677>>, <<2689,2690>>, <<2753,2757>>, <<2759,2760>>,
    <<2786,2787>>, <<2810,2815>>, <<2817,2817>>, <<2879,2879>>, <<2881,2884>>,
    <<2901,2902>>, <<2914,2915>>, <<2946,2946>>, <<3008,3008>>, <<3072,3072>>,
    <<3076,3076>>, <<3134,3136>>, <<3142,3144>>, <<3146,3148>>, <<3170,3171>>,
    <<3201,3201>>, <<3263,3263>>, <<3270,3270>>, <<3276,3276>>, <<3298,3299>>,
    <<3328,3329>>, <<3393,3396>>, <<3426,3427>>, <<3457,3457>>, <<3538,3540>>,
    <<3542,3542>>, <<3633,3633>>, <<3636,3639>>, <<3655,3655>>, <<3660,3662>>,
    <<3761,3761>>, <<3764,3767>>, <<3771,3772>>, <<3788,3789>>, <<3955,3955>>,
    <<3957,3961>>, <<3966,3966>>, <<3969,3969>>, <<3981,3991>>, <<3993,4028>>,
    <<4141,4144>>, <<4146,4150>>, <<4157,4158>>, <<4184,4185>>, <<4190,4192>>,
    <<4209,4212>>, <<4226,4226>>, <<4229,4230>>, <<4253,4253>>, <<5906,5907>>,
    <<5938,5939>>, <<5970,5971>>, <<6002,6003>>, <<6068,6069>>, <<6071,6077>>,
    <<6086,6086>>, <<6089,6097>>, <<6099,6099>>, <<6155,6157>>, <<6159,6159>>,
    <<6277,6278>>, <<6432,6434>>, <<6439,6440>>, <<6450,6450>>, <<6683,6683>>,
    <<6742,6742>>, <<6744,6750>>, <<6754,6754>>, <<6757,6764>>, <<6771,6772>>,
    <<6912,6915>>, <<6966,6970>>, <<6972,6972>>, <<6978,6978>>, <<7040,7041>>,
    <<7074,7077>>, <<7080,7081>>, <<7084,7085>>, <<7144,7145>>, <<7149,7149>>,
    <<7151,7153>>, <<7212,7219>>, <<7222,7222>>, <<43010,43010>>,
    <<43019,43019>>, <<43045,43046>>, <<43205,43205>>, <<43263,43263>>,
    <<43302,43306>>, <<43335,43345>>, <<43392,43394>>, <<43446,43449>>,
    <<43452,43453>>, <<43493,43493>>, <<43561,43566>>, <<43569,43570>>,
    <<43573,43574>>, <<43587,43587>>, <<43596,43596>>, <<43644,43644>>,
    <<43756,43757>>, <<44005,44005>>, <<44008,44008>>, <<65024,65039>>,
    <<68097,68099>>, <<68101,68102>>, <<68108,68108>>, <<68110,68110>>,
    <<69633,69633>>, <<69688,69701>>, <<69747,69748>>, <<69760,69761>>,
    <<69811,69814>>, <<69826,69826>>, <<69927,69931>>, <<69933,69938>>,
    <<70016,70017>>, <<70070,70078>>, <<70089,70089>>, <<70091,70092>>,
    <<70095,70095>>, <<70191,70193>>, <<70196,70196>>, <<70199,70199>>,
    <<70206,70206>>, <<70367,70367>>, <<70371,70376>>, <<70400,70401>>,
    <<70464,70464>>, <<70712,70719>>, <<70723,70724>>, <<70835,70840>>,
    <<70842,70842>>, <<70847,70848>>, <<71090,71093>>, <<71100,71101>>,
    <<71132,71133>>, <<71219,71226>>, <<71229,71229>>, <<71232,71232>>,
    <<71339,71339>>, <<71341,71341>>, <<71344,71349>>, <<71453,71455>>,
    <<71458,71461>>, <<71463,71466>>, <<71727,71735>>, <<71995,71996>>,
    <<72148,72151>>, <<72154,72155>>, <<72193,72202>>, <<72243,72243>>,
    <<72245,72248>>, <<72251,72254>>, <<72273,72278>>, <<72281,72283>>,
    <<72330,72342>>, <<72344,72344>>, <<72752,72758>>, <<72760,72765>>,
    <<72850,72871>>, <<72874,72880>>, <<72882,72883>>, <<72885,72886>>,
    <<73009,73014>>, <<73018,73018>>, <<73020,73021>>, <<73023,73025>>,
    <<73027,73027>>, <<73031,73031>>, <<73104,73105>>, <<73109,73109>>,
    <<73459,73460>>, <<94031,94031>>, <<94095,94098>>, <<94180,94180>>,
    <<113821,113821>>, <<118528,118573>>, <<118576,118598>>,
    <<121344,121398>>, <<121403,121452>>, <<121461,121461>>,
    <<121476,121476>>, <<121499,121503>>, <<121505,121519>>, <<917760,917999>>
>>

\* <<character, canonical combining class>> of the characters of a category
\* other than Mn whose class is not 0
Combining == <<
    <<5909,9>>, <<5940,9>>, <<6980,9>>, <<7082,9>>, <<7154,9>>, <<7155,9>>,
    <<12334,224>>, <<12335,224>>, <<43347,9>>, <<43456,9>>, <<70080,9>>,
    <<70197,9>>, <<70477,9>>, <<71350,9>>, <<71997,9>>, <<94192,6>>,
    <<94193,6>>, <<119141,216>>, <<119142,216>>, <<119149,226>>,
    <<119150,216>>, <<119151,216>>, <<119152,216>>, <<119153,216>>,
    <<119154,216>>
>>

\* <<character, base>> of the characters whose canonical decomposition (NFD) is
\* one character that is no Mn followed by Mn characters of a class other than
\* 0
DecomposedOne == <<
    <<192,65>>, <<193,65>>, <<194,65>>, <<195,65>>, <<196,65>>, <<197,65>>,
    <<199,67>>, <<200,69>>, <<201,69>>, <<202,69>>, <<203,69>>, <<204,73>>,
    <<205,73>>, <<206,73>>, <<207,73>>, <<209,78>>, <<210,79>>, <<211,79>>,
    <<212,79>>, <<213,79>>, <<214,79>>, <<217,85>>, <<218,85>>, <<219,85>>,
    <<220,85>>, <<221,89>>, <<224,97>>, <<225,97>>, <<226,97>>, <<227,97>>,
    <<228,97>>, <<229,97>>, <<231,99>>, <<232,101>>, <<233,101>>, <<234,101>>,
    <<235,101>>, <<236,105>>, <<237,105>>, <<238,105>>, <<239,105>>,
    <<241,110>>, <<242,111>>, <<243,111>>, <<244,111>>, <<245,111>>,
    <<246,111>>, <<249,117>>, <<250,117>>, <<251,117>>, <<252,117>>,
    <<253,121>>, <<255,121>>, <<256,65>>, <<257,97>>, <<258,65>>, <<259,97>>,
    <<260,65>>, <<261,97>>, <<262,67>>, <<263,99>>, <<264,67>>, <<265,99>>,
    <<266,67>>, <<267,99>>, <<268,67>>, <<269,99>>, <<270,68>>, <<271,100>>,
    <<274,69>>, <<275,101>>, <<276,69>>, <<277,101>>, <<278,69>>, <<279,101>>,
    <<280,69>>, <<281,101>>, <<282,69>>, <<283,101>>, <<284,71>>, <<285,103>>,
    <<286,71>>, <<287,103>>, <<288,71>>, <<289,103>>, <<290,71>>, <<291,103>>,
    <<292,72>>, <<293,104>>, <<296,73>>, <<297,105>>, <<298,73>>, <<299,105>>,
    <<300,73>>, <<301,105>>, <<302,73>>, <<303,105>>, <<304,73>>, <<308,74>>,
    <<309,106>>, <<310,75>>, <<311,107>>, <<313,76>>, <<314,108>>, <<315,76>>,
    <<316,108>>, <<317,76>>, <<318,108>>, <<323,78>>, <<324,110>>, <<325,78>>,
    <<326,110>>, <<327,78>>, <<328,110>>, <<332,79>>, <<333,111>>, <<334,79>>,
    <<335,111>>, <<336,79>>, <<337,111>>, <<340,82>>, <<341,114>>, <<342,82>>,
    <<343,114>>, <<344,82>>, <<345,114>>, <<346,83>>, <<347,115>>, <<348,83>>,
    <<349,115>>, <<350,83>>, <<351,115>>, <<352,83>>, <<353,115>>, <<354,84>>,
    <<355,116>>, <<356,84>>, <<357,116>>, <<360,85>>, <<361,117>>, <<362,85>>,
    <<363,117>>, <<364,85>>, <<365,117>>, <<366,85>>, <<367,117>>, <<368,85>>,
    <<369,117>>, <<370,85>>, <<371,117>>, <<372,87>>, <<373,119>>, <<374,89>>,
    <<375,121>>, <<376,89>>, <<377,90>>, <<378,122>>, <<379,90>>, <<380,122>>,
    <<381,90>>, <<382,122>>, <<416,79>>, <<417,111>>, <<431,85>>, <<432,117>>,
    <<461,65>>, <<462,97>>, <<463,73>>, <<464,105>>, <<465,79>>, <<466,111>>,
    <<467,85>>, <<468,117>>, <<469,85>>, <<470,117>>, <<471,85>>, <<472,117>>,
    <<473,85>>, <<474,117>>, <<475,85>>, <<476,117>>, <<478,65>>, <<479,97>>,
    <<480,65>>, <<481,97>>, <<482,198>>, <<483,230>>, <<486,71>>, <<487,103>>,
    <<488,75>>, <<489,107>>, <<490,79>>, <<491,111>>, <<492,79>>, <<493,111>>,
    <<494,439>>, <<495,658>>, <<496,106>>, <<500,71>>, <<501,103>>,
    <<504,78>>, <<505,110>>, <<506,65>>, <<507,97>>, <<508,198>>, <<509,230>>,
    <<510,216>>, <<511,248>>, <<512,65>>, <<513,97>>, <<514,65>>, <<515,97>>,
    <<516,69>>, <<517,101>>, <<518,69>>, <<519,101>>, <<520,73>>, <<521,105>>,
    <<522,73>>, <<523,105>>, <<524,79>>, <<525,111>>, <<526,79>>, <<527,111>>,
    <<528,82>>, <<529,114>>, <<530,82>>, <<531,114>>, <<532,85>>, <<533,117>>,
    <<534,85>>, <<535,117>>, <<536,83>>, <<537,115>>, <<538,84>>, <<539,116>>,
    <<542,72>>, <<543,104>>, <<550,65>>, <<551,97>>, <<552,69>>, <<553,101>>,
    <<554,79>>, <<555,111>>, <<556,79>>, <<557,111>>, <<558,79>>, <<559,111>>,
    <<560,79>>, <<561,111>>, <<562,89>>, <<563,121>>, <<884,697>>, <<894,59>>,
    <<901,168>>, <<902,913>>, <<903,183>>, <<904,917>>, <<905,919>>,
    <<906,921>>, <<908,927>>, <<910,933>>, <<911,937>>, <<912,953>>,
    <<938,921>>, <<939,933>>, <<940,945>>, <<941,949>>, <<942,951>>,
    <<943,953>>, <<944,965>>, <<970,953>>, <<971,965>>, <<972,959>>,
    <<973,965>>, <<974,969>>, <<979,978>>, <<980,978>>, <<1024,1045>>,
    <<1025,1045>>, <<1027,1043>>, <<1031,1030>>, <<1036,1050>>, <<1037,1048>>,
    <<1038,1059>>, <<1049,1048>>, <<1081,1080>>, <<1104,1077>>, <<1105,1077>>,
    <<1107,1075>>, <<1111,1110>>, <<1116,1082>>, <<1117,1080>>, <<1118,1091>>,
    <<1142,1140>>, <<1143,1141>>, <<1217,1046>>, <<1218,1078>>, <<1232,1040>>,
    <<1233,1072>>, <<1234,1040>>, <<1235,1072>>, <<1238,1045>>, <<1239,1077>>,
    <<1242,1240>>, <<1243,1241>>, <<1244,1046>>, <<1245,1078>>, <<1246,1047>>,
    <<1247,1079>>, <<1250,1048>>, <<1251,1080>>, <<1252,1048>>, <<1253,1080>>,
    <<1254,1054>>, <<1255,1086>>, <<1258,1256>>, <<1259,1257>>, <<1260,1069>>,
    <<1261,1101>>, <<1262,1059>>, <<1263,1091>>, <<1264,1059>>, <<1265,1091>>,
    <<1266,1059>>, <<1267,1091>>, <<1268,1063>>, <<1269,1095>>, <<1272,1067>>,
    <<1273,1099>>, <<1570,1575>>, <<1571,1575>>, <<1572,1608>>, <<1573,1575>>,
    <<1574,1610>>, <<1728,1749>>, <<1730,1729>>, <<1747,1746>>, <<2345,2344>>,
    <<2353,2352>>, <<2356,2355>>, <<2392,2325>>, <<2393,2326>>, <<2394,2327>>,
    <<2395,2332>>, <<2396,2337>>, <<2397,2338>>, <<2398,2347>>, <<2399,2351>>,
    <<2524,2465>>, <<2525,2466>>, <<2527,2479>>, <<2611,2610>>, <<2614,2616>>,
    <<2649,2582>>, <<2650,2583>>, <<2651,2588>>, <<2654,2603>>, <<2908,2849>>,
    <<2909,2850>>, <<3546,3545>>, <<7680,65>>, <<7681,97>>, <<7682,66>>,
    <<7683,98>>, <<7684,66>>, <<7685,98>>, <<7686,66>>, <<7687,98>>,
    <<7688,67>>, <<7689,99>>, <<7690,68>>, <<7691,100>>, <<7692,68>>,
    <<7693,100>>, <<7694,68>>, <<7695,100>>, <<7696,68>>, <<7697,100>>,
    <<7698,68>>, <<7699,100>>, <<7700,69>>, <<7701,101>>, <<7702,69>>,
    <<7703,101>>, <<7704,69>>, <<7705,101>>, <<7706,69>>, <<7707,101>>,
    <<7708,69>>, <<7709,101>>, <<7710,70>>, <<7711,102>>, <<7712,71>>,
    <<7713,103>>, <<7714,72>>, <<7715,104>>, <<7716,72>>, <<7717,104>>,
    <<7718,72>>, <<7719,104>>, <<7720,72>>, <<7721,104>>, <<7722,72>>,
    <<7723,104>>, <<7724,73>>, <<7725,105>>, <<7726,73>>, <<7727,105>>,
    <<7728,75>>, <<7729,107>>, <<7730,75>>, <<7731,107>>, <<7732,75>>,
    <<7733,107>>, <<7734,76>>, <<7735,108>>, <<7736,76>>, <<7737,108>>,
    <<7738,76>>, <<7739,108>>, <<7740,76>>, <<7741,108>>, <<7742,77>>,
    <<7743,109>>, <<7744,77>>, <<7745,109>>, <<7746,77>>, <<7747,109>>,
    <<7748,78>>, <<7749,110>>, <<7750,78>>, <<7751,110>>, <<7752,78>>,
    <<7753,110>>, <<7754,78>>, <<7755,110>>, <<7756,79>>, <<7757,111>>,
    <<7758,79>>, <<7759,111>>, <<7760,79>>, <<7761,111>>, <<7762,79>>,
    <<7763,111>>, <<7764,80>>, <<7765,112>>, <<7766,80>>, <<7767,112>>,
    <<7768,82>>, <<7769,114>>, <<7770,82>>, <<7771,114>>, <<7772,82>>,
    <<7773,114>>, <<7774,82>>, <<7775,114>>, <<7776,83>>, <<7777,115>>,
    <<7778,83>>, <<7779,115>>, <<7780,83>>, <<7781,115>>, <<7782,83>>,
    <<7783,115>>, <<7784,83>>, <<7785,115>>, <<7786,84>>, <<7787,116>>,
    <<7788,84>>, <<7789,116>>, <<7790,84>>, <<7791,116>>, <<7792,84>>,
    <<7793,116>>, <<7794,85>>, <<7795,117>>, <<7796,85>>, <<7797,117>>,
    <<7798,85>>, <<7799,117>>, <<7800,85>>, <<7801,117>>, <<7802,85>>,
    <<7803,117>>, <<7804,86>>, <<7805,118>>, <<7806,86>>, <<7807,118>>,
    <<7808,87>>, <<7809,119>>, <<7810,87>>, <<7811,119>>, <<7812,87>>,
    <<7813,119>>, <<7814,87>>, <<7815,119>>, <<7816,87>>, <<7817,119>>,
    <<7818,88>>, <<7819,120>>, <<7820,88>>, <<7821,120>>, <<7822,89>>,
    <<7823,121>>, <<7824,90>>, <<7825,122>>, <<7826,90>>, <<7827,122>>,
    <<7828,90>>, <<7829,122>>, <<7830,104>>, <<7831,116>>, <<7832,119>>,
    <<7833,121>>, <<7835,383>>, <<7840,65>>, <<7841,97>>, <<7842,65>>,
    <<7843,97>>, <<7844,65>>, <<7845,97>>, <<7846,65>>, <<7847,97>>,
    <<7848,65>>, <<7849,97>>, <<7850,65>>, <<7851,97>>, <<7852,65>>,
    <<7853,97>>, <<7854,65>>, <<7855,97>>, <<7856,65>>, <<7857,97>>,
    <<7858,65>>, <<7859,97>>, <<7860,65>>, <<7861,97>>, <<7862,65>>,
    <<7863,97>>, <<7864,69>>, <<7865,101>>, <<7866,69>>, <<7867,101>>,
    <<7868,69>>, <<7869,101>>, <<7870,69>>, <<7871,101>>, <<7872,69>>,
    <<7873,101>>, <<7874,69>>, <<7875,101>>, <<7876,69>>, <<7877,101>>,
    <<7878,69>>, <<7879,101>>, <<7880,73>>, <<7881,105>>, <<7882,73>>,
    <<7883,105>>, <<7884,79>>, <<7885,111>>, <<7886,79>>, <<7887,111>>,
    <<7888,79>>, <<7889,111>>, <<7890,79>>, <<7891,111>>, <<7892,79>>,
    <<7893,111>>, <<7894,79>>, <<7895,111>>, <<7896,79>>, <<7897,111>>,
    <<7898,79>>, <<7899,111>>, <<7900,79>>, <<7901,111>>, <<7902,79>>,
    <<7903,111>>, <<7904,79>>, <<7905,111>>, <<7906,79>>, <<7907,111>>,
    <<7908,85>>, <<7909,117>>, <<7910,85>>, <<7911,117>>, <<7912,85>>,
    <<7913,117>>, <<7914,85>>, <<7915,117>>, <<7916,85>>, <<7917,117>>,
    <<7918,85>>, <<7919,117>>, <<7920,85>>, <<7921,117>>, <<7922,89>>,
    <<7923,121>>, <<7924,89>>, <<7925,121>>, <<7926,89>>, <<7927,121>>,
    <<7928,89>>, <<7929,121>>, <<7936,945>>, <<7937,945>>, <<7938,945>>,
    <<7939,945>>, <<7940,945>>, <<7941,945>>, <<7942,945>>, <<7943,945>>,
    <<7944,913>>, <<7945,913>>, <<7946,913>>, <<7947,913>>, <<7948,913>>,
    <<7949,913>>, <<7950,913>>, <<7951,913>>, <<7952,949>>, <<7953,949>>,
    <<7954,949>>, <<7955,949>>, <<7956,949>>, <<7957,949>>, <<7960,917>>,
    <<7961,917>>, <<7962,917>>, <<7963,917>>, <<7964,917>>, <<7965,917>>,
    <<7968,951>>, <<7969,951>>, <<7970,951>>, <<7971,951>>, <<7972,951>>,
    <<7973,951>>, <<7974,951>>, <<7975,951>>, <<7976,919>>, <<7977,919>>,
    <<7978,919>>, <<7979,919>>, <<7980,919>>, <<7981,919>>, <<7982,919>>,
    <<7983,919>>, <<7984,953>>, <<7985,953>>, <<7986,953>>, <<7987,953>>,
    <<7988,953>>, <<7989,953>>, <<7990,953>>, <<7991,953>>, <<7992,921>>,
    <<7993,921>>, <<7994,921>>, <<7995,921>>, <<7996,921>>, <<7997,921>>,
    <<7998,921>>, <<7999,921>>, <<8000,959>>, <<8001,959>>, <<8002,959>>,
    <<8003,959>>, <<8004,959>>, <<8005,959>>, <<8008,927>>, <<8009,927>>,
    <<8010,927>>, <<8011,927>>, <<8012,927>>, <<8013,927>>, <<8016,965>>,
    <<8017,965>>, <<8018,965>>, <<8019,965>>, <<8020,965>>, <<8021,965>>,
    <<8022,965>>, <<8023,965>>, <<8025,933>>, <<8027,933>>, <<8029,933>>,
    <<8031,933>>, <<8032,969>>, <<8033,969>>, <<8034,969>>, <<8035,969>>,
    <<8036,969>>, <<8037,969>>, <<8038,969>>, <<8039,969>>, <<8040,937>>,
    <<8041,937>>, <<8042,937>>, <<8043,937>>, <<8044,937>>, <<8045,937>>,
    <<8046,937>>, <<8047,937>>, <<8048,945>>, <<8049,945>>, <<8050,949>>,
    <<8051,949>>, <<8052,951>>, <<8053,951>>, <<8054,953>>, <<8055,953>>,
    <<8056,959>>, <<8057,959>>, <<8058,965>>, <<8059,965>>, <<8060,969>>,
    <<8061,969>>, <<8064,945>>, <<8065,945>>, <<8066,945>>, <<8067,945>>,
    <<8068,945>>, <<8069,945>>, <<8070,945>>, <<8071,945>>, <<8072,913>>,
    <<8073,913>>, <<8074,913>>, <<8075,913>>, <<8076,913>>, <<8077,913>>,
    <<8078,913>>, <<8079,913>>, <<8080,951>>, <<8081,951>>, <<8082,951>>,
    <<8083,951>>, <<8084,951>>, <<8085,951>>, <<8086,951>>, <<8087,951>>,
    <<8088,919>>, <<8089,919>>, <<8090,919>>, <<8091,919>>, <<8092,919>>,
    <<8093,919>>, <<8094,919>>, <<8095,919>>, <<8096,969>>, <<8097,969>>,
    <<8098,969>>, <<8099,969>>, <<8100,969>>, <<8101,969>>, <<8102,969>>,
    <<8103,969>>, <<8104,937>>, <<8105,937>>, <<8106,937>>, <<8107,937>>,
    <<8108,937>>, <<8109,937>>, <<8110,937>>, <<8111,937>>, <<8112,945>>,
    <<8113,945>>, <<8114,945>>, <<8115,945>>, <<8116,945>>, <<8118,945>>,
    <<8119,945>>, <<8120,913>>, <<8121,913>>, <<8122,913>>, <<8123,913>>,
    <<8124,913>>, <<8126,953>>, <<8129,168>>, <<8130,951>>, <<8131,951>>,
    <<8132,951>>, <<8134,951>>, <<8135,951>>, <<8136,917>>, <<8137,917>>,
    <<8138,919>>, <<8139,919>>, <<8140,919>>, <<8141,8127>>, <<8142,8127>>,
    <<8143,8127>>, <<8144,953>>, <<8145,953>>, <<8146,953>>, <<8147,953>>,
    <<8150,953>>, <<8151,953>>, <<8152,921>>, <<8153,921>>, <<8154,921>>,
    <<8155,921>>, <<8157,8190>>, <<8158,8190>>, <<8159,8190>>, <<8160,965>>,
    <<8161,965>>, <<8162,965>>, <<8163,965>>, <<8164,961>>, <<8165,961>>,
    <<8166,965>>, <<8167,965>>, <<8168,933>>, <<8169,933>>, <<8170,933>>,
    <<8171,933>>, <<8172,929>>, <<8173,168>>, <<8174,168>>, <<8175,96>>,
    <<8178,969>>, <<8179,969>>, <<8180,969>>, <<8182,969>>, <<8183,969>>,
    <<8184,927>>, <<8185,927>>, <<8186,937>>, <<8187,937>>, <<8188,937>>,
    <<8189,180>>, <<8192,8194>>, <<8193,8195>>, <<8486,937>>, <<8490,75>>,
    <<8491,65>>, <<8602,8592>>, <<8603,8594>>, <<8622,8596>>, <<8653,8656>>,
    <<8654,8660>>, <<8655,8658>>, <<8708,8707>>, <<8713,8712>>, <<8716,8715>>,
    <<8740,8739>>, <<8742,8741>>, <<8769,8764>>, <<8772,8771>>, <<8775,8773>>,
    <<8777,8776>>, <<8800,61>>, <<8802,8801>>, <<8813,8781>>, <<8814,60>>,
    <<8815,62>>, <<8816,8804>>, <<8817,8805>>, <<8820,8818>>, <<8821,8819>>,
    <<8824,8822>>, <<8825,8823>>, <<8832,8826>>, <<8833,8827>>, <<8836,8834>>,
    <<8837,8835>>, <<8840,8838>>, <<8841,8839>>, <<8876,8866>>, <<8877,8872>>,
    <<8878,8873>>, <<8879,8875>>, <<8928,8828>>, <<8929,8829>>, <<8930,8849>>,
    <<8931,8850>>, <<8938,8882>>, <<8939,8883>>, <<8940,8884>>, <<8941,8885>>,
    <<9001,12296>>, <<9002,12297>>, <<10972,10973>>, <<12364,12363>>,
    <<12366,12365>>, <<12368,12367>>, <<12370,12369>>, <<12372,12371>>,
    <<12374,12373>>, <<12376,12375>>, <<12378,12377>>, <<12380,12379>>,
    <<12382,12381>>, <<12384,12383>>, <<12386,12385>>, <<12389,12388>>,
    <<12391,12390>>, <<12393,12392>>, <<12400,12399>>, <<12401,12399>>,
    <<12403,12402>>, <<12404,12402>>, <<12406,12405>>, <<12407,12405>>,
    <<12409,12408>>, <<12410,12408>>, <<12412,12411>>, <<12413,12411>>,
    <<12436,12358>>, <<12446,12445>>, <<12460,12459>>, <<12462,12461>>,
    <<12464,12463>>, <<12466,12465>>, <<12468,12467>>, <<12470,12469>>,
    <<12472,12471>>, <<12474,12473>>, <<12476,12475>>, <<12478,12477>>,
    <<12480,12479>>, <<12482,12481>>, <<12485,12484>>, <<12487,12486>>,
    <<12489,12488>>, <<12496,12495>>, <<12497,12495>>, <<12499,12498>>,
    <<12500,12498>>, <<12502,12501>>, <<12503,12501>>, <<12505,12504>>,
    <<12506,12504>>, <<12508,12507>>, <<12509,12507>>, <<12532,12454>>,
    <<12535,12527>>, <<12536,12528>>, <<12537,12529>>, <<12538,12530>>,
    <<12542,12541>>, <<63744,35912>>, <<63745,26356>>, <<63746,36554>>,
    <<63747,36040>>, <<63748,28369>>, <<63749,20018>>, <<63750,21477>>,
    <<63751,40860>>, <<63752,40860>>, <<63753,22865>>, <<63754,37329>>,
    <<63755,21895>>, <<63756,22856>>, <<63757,25078>>, <<63758,30313>>,
    <<63759,32645>>, <<63760,34367>>, <<63761,34746>>, <<63762,35064>>,
    <<63763,37007>>, <<63764,27138>>, <<63765,27931>>, <<63766,28889>>,
    <<63767,29662>>, <<63768,33853>>, <<63769,37226>>, <<63770,39409>>,
    <<63771,20098>>, <<63772,21365>>, <<63773,27396>>, <<63774,29211>>,
    <<63775,34349>>, <<63776,40478>>, <<63777,23888>>, <<63778,28651>>,
    <<63779,34253>>, <<63780,35172>>, <<63781,25289>>, <<63782,33240>>,
    <<63783,34847>>, <<63784,24266>>, <<63785,26391>>, <<63786,28010>>,
    <<63787,29436>>, <<63788,37070>>, <<63789,20358>>, <<63790,20919>>,
    <<63791,21214>>, <<63792,25796>>, <<63793,27347>>, <<63794,29200>>,
    <<63795,30439>>, <<63796,32769>>, <<63797,34310>>, <<63798,34396>>,
    <<63799,36335>>, <<63800,38706>>, <<63801,39791>>, <<63802,40442>>,
    <<63803,30860>>, <<63804,31103>>, <<63805,32160>>, <<63806,33737>>,
    <<63807,37636>>, <<63808,40575>>, <<63809,35542>>, <<63810,22751>>,
    <<63811,24324>>, <<63812,31840>>, <<63813,32894>>, <<63814,29282>>,
    <<63815,30922>>, <<63816,36034>>, <<63817,38647>>, <<63818,22744>>,
    <<63819,23650>>, <<63820,27155>>, <<63821,28122>>, <<63822,28431>>,
    <<63823,32047>>, <<63824,32311>>, <<63825,38475>>, <<63826,21202>>,
    <<63827,32907>>, <<63828,20956>>, <<63829,20940>>, <<63830,31260>>,
    <<63831,32190>>, <<63832,33777>>, <<63833,38517>>, <<63834,35712>>,
    <<63835,25295>>, <<63836,27138>>, <<63837,35582>>, <<63838,20025>>,
    <<63839,23527>>, <<63840,24594>>, <<63841,29575>>, <<63842,30064>>,
    <<63843,21271>>, <<63844,30971>>, <<63845,20415>>, <<63846,24489>>,
    <<63847,19981>>, <<63848,27852>>, <<63849,25976>>, <<63850,32034>>,
    <<63851,21443>>, <<63852,22622>>, <<63853,30465>>, <<63854,33865>>,
    <<63855,35498>>, <<63856,27578>>, <<63857,36784>>, <<63858,27784>>,
    <<63859,25342>>, <<63860,33509>>, <<63861,25504>>, <<63862,30053>>,
    <<63863,20142>>, <<63864,20841>>, <<63865,20937>>, <<63866,26753>>,
    <<63867,31975>>, <<63868,33391>>, <<63869,35538>>, <<63870,37327>>,
    <<63871,21237>>, <<63872,21570>>, <<63873,22899>>, <<63874,24300>>,
    <<63875,26053>>, <<63876,28670>>, <<63877,31018>>, <<63878,38317>>,
    <<63879,39530>>, <<63880,40599>>, <<63881,40654>>, <<63882,21147>>,
    <<63883,26310>>, <<63884,27511>>, <<63885,36706>>, <<63886,24180>>,
    <<63887,24976>>, <<63888,25088>>, <<63889,25754>>, <<63890,28451>>,
    <<63891,29001>>, <<63892,29833>>, <<63893,31178>>, <<63894,32244>>,
    <<63895,32879>>, <<63896,36646>>, <<63897,34030>>, <<63898,36899>>,
    <<63899,37706>>, <<63900,21015>>, <<63901,21155>>, <<63902,21693>>,
    <<63903,28872>>, <<63904,35010>>, <<63905,35498>>, <<63906,24265>>,
    <<63907,24565>>, <<63908,25467>>, <<63909,27566>>, <<63910,31806>>,
    <<63911,29557>>, <<63912,20196>>, <<63913,22265>>, <<63914,23527>>,
    <<63915,23994>>, <<63916,24604>>, <<63917,29618>>, <<63918,29801>>,
    <<63919,32666>>, <<63920,32838>>, <<63921,37428>>, <<63922,38646>>,
    <<63923,38728>>, <<63924,38936>>, <<63925,20363>>, <<63926,31150>>,
    <<63927,37300>>, <<63928,38584>>, <<63929,24801>>, <<63930,20102>>,
    <<63931,20698>>, <<63932,23534>>, <<63933,23615>>, <<63934,26009>>,
    <<63935,27138>>, <<63936,29134>>, <<63937,30274>>, <<63938,34044>>,
    <<63939,36988>>, <<63940,40845>>, <<63941,26248>>, <<63942,38446>>,
    <<63943,21129>>, <<63944,26491>>, <<63945,26611>>, <<63946,27969>>,
    <<63947,28316>>, <<63948,29705>>, <<63949,30041>>, <<63950,30827>>,
    <<63951,32016>>, <<63952,39006>>, <<63953,20845>>, <<63954,25134>>,
    <<63955,38520>>, <<63956,20523>>, <<63957,23833>>, <<63958,28138>>,
    <<63959,36650>>, <<63960,24459>>, <<63961,24900>>, <<63962,26647>>,
    <<63963,29575>>, <<63964,38534>>, <<63965,21033>>, <<63966,21519>>,
    <<63967,23653>>, <<63968,26131>>, <<63969,26446>>, <<63970,26792>>,
    <<63971,27877>>, <<63972,29702>>, <<63973,30178>>, <<63974,32633>>,
    <<63975,35023>>, <<63976,35041>>, <<63977,37324>>, <<63978,38626>>,
    <<63979,21311>>, <<63980,28346>>, <<63981,21533>>, <<63982,29136>>,
    <<63983,29848>>, <<63984,34298>>, <<63985,38563>>, <<63986,40023>>,
    <<63987,40607>>, <<63988,26519>>, <<63989,28107>>, <<63990,33256>>,
    <<63991,31435>>, <<63992,31520>>, <<63993,31890>>, <<63994,29376>>,
    <<63995,28825>>, <<63996,35672>>, <<63997,20160>>, <<63998,33590>>,
    <<63999,21050>>, <<64000,20999>>, <<64001,24230>>, <<64002,25299>>,
    <<64003,31958>>, <<64004,23429>>, <<64005,27934>>, <<64006,26292>>,
    <<64007,36667>>, <<64008,34892>>, <<64009,38477>>, <<64010,35211>>,
    <<64011,24275>>, <<64012,20800>>, <<64013,21952>>, <<64016,22618>>,
    <<64018,26228>>, <<64021,20958>>, <<64022,29482>>, <<64023,30410>>,
    <<64024,31036>>, <<64025,31070>>, <<64026,31077>>, <<64027,31119>>,
    <<64028,38742>>, <<64029,31934>>, <<64030,32701>>, <<64032,34322>>,
    <<64034,35576>>, <<64037,36920>>, <<64038,37117>>, <<64042,39151>>,
    <<64043,39164>>, <<64044,39208>>, <<64045,40372>>, <<64046,37086>>,
    <<64047,38583>>, <<64048,20398>>, <<64049,20711>>, <<64050,20813>>,
    <<64051,21193>>, <<64052,21220>>, <<64053,21329>>, <<64054,21917>>,
    <<64055,22022>>, <<64056,22120>>, <<64057,22592>>, <<64058,22696>>,
    <<64059,23652>>, <<64060,23662>>, <<64061,24724>>, <<64062,24936>>,
    <<64063,24974>>, <<64064,25074>>, <<64065,25935>>, <<64066,26082>>,
    <<64067,26257>>, <<64068,26757>>, <<64069,28023>>, <<64070,28186>>,
    <<64071,28450>>, <<64072,29038>>, <<64073,29227>>, <<64074,29730>>,
    <<64075,30865>>, <<64076,31038>>, <<64077,31049>>, <<64078,31048>>,
    <<64079,31056>>, <<64080,31062>>, <<64081,31069>>, <<64082,31117>>,
    <<64083,31118>>, <<64084,31296>>, <<64085,31361>>, <<64086,31680>>,
    <<64087,32244>>, <<64088,32265>>, <<64089,32321>>, <<64090,32626>>,
    <<64091,32773>>, <<64092,33261>>, <<64093,33401>>, <<64094,33401>>,
    <<64095,33879>>, <<64096,35088>>, <<64097,35222>>, <<64098,35585>>,
    <<64099,35641>>, <<64100,36051>>, <<64101,36104>>, <<64102,36790>>,
    <<64103,36920>>, <<64104,38627>>, <<64105,38911>>, <<64106,38971>>,
    <<64107,24693>>, <<64108,148206>>, <<64109,33304>>, <<64112,20006>>,
    <<64113,20917>>, <<64114,20840>>, <<64115,20352>>, <<64116,20805>>,
    <<64117,20864>>, <<64118,21191>>, <<64119,21242>>, <<64120,21917>>,
    <<64121,21845>>, <<64122,21913>>, <<64123,21986>>, <<64124,22618>>,
    <<64125,22707>>, <<64126,22852>>, <<64127,22868>>, <<64128,23138>>,
    <<64129,23336>>, <<64130,24274>>, <<64131,24281>>, <<64132,24425>>,
    <<64133,24493>>, <<64134,24792>>, <<64135,24910>>, <<64136,24840>>,
    <<64137,24974>>, <<64138,24928>>, <<64139,25074>>, <<64140,25140>>,
    <<64141,25540>>, <<64142,25628>>, <<64143,25682>>, <<64144,25942>>,
    <<64145,26228>>, <<64146,26391>>, <<64147,26395>>, <<64148,26454>>,
    <<64149,27513>>, <<64150,27578>>, <<64151,27969>>, <<64152,28379>>,
    <<64153,28363>>, <<64154,28450>>, <<64155,28702>>, <<64156,29038>>,
    <<64157,30631>>, <<64158,29237>>, <<64159,29359>>, <<64160,29482>>,
    <<64161,29809>>, <<64162,29958>>, <<64163,30011>>, <<64164,30237>>,
    <<64165,30239>>, <<64166,30410>>, <<64167,30427>>, <<64168,30452>>,
    <<64169,30538>>, <<64170,30528>>, <<64171,30924>>, <<64172,31409>>,
    <<64173,31680>>, <<64174,31867>>, <<64175,32091>>, <<64176,32244>>,
    <<64177,32574>>, <<64178,32773>>, <<64179,33618>>, <<64180,33775>>,
    <<64181,34681>>, <<64182,35137>>, <<64183,35206>>, <<64184,35222>>,
    <<64185,35519>>, <<64186,35576>>, <<64187,35531>>, <<64188,35585>>,
    <<64189,35582>>, <<64190,35565>>, <<64191,35641>>, <<64192,35722>>,
    <<64193,36104>>, <<64194,36664>>, <<64195,36978>>, <<64196,37273>>,
    <<64197,37494>>, <<64198,38524>>, <<64199,38627>>, <<64200,38742>>,
    <<64201,38875>>, <<64202,38911>>, <<64203,38923>>, <<64204,38971>>,
    <<64205,39698>>, <<64206,40860>>, <<64207,141386>>, <<64208,141380>>,
    <<64209,144341>>, <<64210,15261>>, <<64211,16408>>, <<64212,16441>>,
    <<64213,152137>>, <<64214,154832>>, <<64215,163539>>, <<64216,40771>>,
    <<64217,40846>>, <<64285,1497>>, <<64287,1522>>, <<64298,1513>>,
    <<64299,1513>>, <<64300,1513>>, <<64301,1513>>, <<64302,1488>>,
    <<64303,1488>>, <<64304,1488>>, <<64305,1489>>, <<64306,1490>>,
    <<64307,1491>>, <<64308,1492>>, <<64309,1493>>, <<64310,1494>>,
    <<64312,1496>>, <<64313,1497>>, <<64314,1498>>, <<64315,1499>>,
    <<64316,1500>>, <<64318,1502>>, <<64320,1504>>, <<64321,1505>>,
    <<64323,1507>>, <<64324,1508>>, <<64326,1510>>, <<64327,1511>>,
    <<64328,1512>>, <<64329,1513>>, <<64330,1514>>, <<64331,1493>>,
    <<64332,1489>>, <<64333,1499>>, <<64334,1508>>, <<69786,69785>>,
    <<69788,69787>>, <<69803,69797>>, <<194560,20029>>, <<194561,20024>>,
    <<194562,20033>>, <<194563,131362>>, <<194564,20320>>, <<194565,20398>>,
    <<194566,20411>>, <<194567,20482>>, <<194568,20602>>, <<194569,20633>>,
    <<194570,20711>>, <<194571,20687>>, <<194572,13470>>, <<194573,132666>>,
    <<194574,20813>>, <<194575,20820>>, <<194576,20836>>, <<194577,20855>>,
    <<194578,132380>>, <<194579,13497>>, <<194580,20839>>, <<194581,20877>>,
    <<194582,132427>>, <<194583,20887>>, <<194584,20900>>, <<194585,20172>>,
    <<194586,20908>>, <<194587,20917>>, <<194588,168415>>, <<194589,20981>>,
    <<194590,20995>>, <<194591,13535>>, <<194592,21051>>, <<194593,21062>>,
    <<194594,21106>>, <<194595,21111>>, <<194596,13589>>, <<194597,21191>>,
    <<194598,21193>>, <<194599,21220>>, <<194600,21242>>, <<194601,21253>>,
    <<194602,21254>>, <<194603,21271>>, <<194604,21321>>, <<194605,21329>>,
    <<194606,21338>>, <<194607,21363>>, <<194608,21373>>, <<194609,21375>>,
    <<194610,21375>>, <<194611,21375>>, <<194612,133676>>, <<194613,28784>>,
    <<194614,21450>>, <<194615,21471>>, <<194616,133987>>, <<194617,21483>>,
    <<194618,21489>>, <<194619,21510>>, <<194620,21662>>, <<194621,21560>>,
    <<194622,21576>>, <<194623,21608>>, <<194624,21666>>, <<194625,21750>>,
    <<194626,21776>>, <<194627,21843>>, <<194628,21859>>, <<194629,21892>>,
    <<194630,21892>>, <<194631,21913>>, <<194632,21931>>, <<194633,21939>>,
    <<194634,21954>>, <<194635,22294>>, <<194636,22022>>, <<194637,22295>>,
    <<194638,22097>>, <<194639,22132>>, <<194640,20999>>, <<194641,22766>>,
    <<194642,22478>>, <<194643,22516>>, <<194644,22541>>, <<194645,22411>>,
    <<194646,22578>>, <<194647,22577>>, <<194648,22700>>, <<194649,136420>>,
    <<194650,22770>>, <<194651,22775>>, <<194652,22790>>, <<194653,22810>>,
    <<194654,22818>>, <<194655,22882>>, <<194656,136872>>, <<194657,136938>>,
    <<194658,23020>>, <<194659,23067>>, <<194660,23079>>, <<194661,23000>>,
    <<194662,23142>>, <<194663,14062>>, <<194664,14076>>, <<194665,23304>>,
    <<194666,23358>>, <<194667,23358>>, <<194668,137672>>, <<194669,23491>>,
    <<194670,23512>>, <<194671,23527>>, <<194672,23539>>, <<194673,138008>>,
    <<194674,23551>>, <<194675,23558>>, <<194676,24403>>, <<194677,23586>>,
    <<194678,14209>>, <<194679,23648>>, <<194680,23662>>, <<194681,23744>>,
    <<194682,23693>>, <<194683,138724>>, <<194684,23875>>, <<194685,138726>>,
    <<194686,23918>>, <<194687,23915>>, <<194688,23932>>, <<194689,24033>>,
    <<194690,24034>>, <<194691,14383>>, <<194692,24061>>, <<194693,24104>>,
    <<194694,24125>>, <<194695,24169>>, <<194696,14434>>, <<194697,139651>>,
    <<194698,14460>>, <<194699,24240>>, <<194700,24243>>, <<194701,24246>>,
    <<194702,24266>>, <<194703,172946>>, <<194704,24318>>, <<194705,140081>>,
    <<194706,140081>>, <<194707,33281>>, <<194708,24354>>, <<194709,24354>>,
    <<194710,14535>>, <<194711,144056>>, <<194712,156122>>, <<194713,24418>>,
    <<194714,24427>>, <<194715,14563>>, <<194716,24474>>, <<194717,24525>>,
    <<194718,24535>>, <<194719,24569>>, <<194720,24705>>, <<194721,14650>>,
    <<194722,14620>>, <<194723,24724>>, <<194724,141012>>, <<194725,24775>>,
    <<194726,24904>>, <<194727,24908>>, <<194728,24910>>, <<194729,24908>>,
    <<194730,24954>>, <<194731,24974>>, <<194732,25010>>, <<194733,24996>>,
    <<194734,25007>>, <<194735,25054>>, <<194736,25074>>, <<194737,25078>>,
    <<194738,25104>>, <<194739,25115>>, <<194740,25181>>, <<194741,25265>>,
    <<194742,25300>>, <<194743,25424>>, <<194744,142092>>, <<194745,25405>>,
    <<194746,25340>>, <<194747,25448>>, <<194748,25475>>, <<194749,25572>>,
    <<194750,142321>>, <<194751,25634>>, <<194752,25541>>, <<194753,25513>>,
    <<194754,14894>>, <<194755,25705>>, <<194756,25726>>, <<194757,25757>>,
    <<194758,25719>>, <<194759,14956>>, <<194760,25935>>, <<194761,25964>>,
    <<194762,143370>>, <<194763,26083>>, <<194764,26360>>, <<194765,26185>>,
    <<194766,15129>>, <<194767,26257>>, <<194768,15112>>, <<194769,15076>>,
    <<194770,20882>>, <<194771,20885>>, <<194772,26368>>, <<194773,26268>>,
    <<194774,32941>>, <<194775,17369>>, <<194776,26391>>, <<194777,26395>>,
    <<194778,26401>>, <<194779,26462>>, <<194780,26451>>, <<194781,144323>>,
    <<194782,15177>>, <<194783,26618>>, <<194784,26501>>, <<194785,26706>>,
    <<194786,26757>>, <<194787,144493>>, <<194788,26766>>, <<194789,26655>>,
    <<194790,26900>>, <<194791,15261>>, <<194792,26946>>, <<194793,27043>>,
    <<194794,27114>>, <<194795,27304>>, <<194796,145059>>, <<194797,27355>>,
    <<194798,15384>>, <<194799,27425>>, <<194800,145575>>, <<194801,27476>>,
    <<194802,15438>>, <<194803,27506>>, <<194804,27551>>, <<194805,27578>>,
    <<194806,27579>>, <<194807,146061>>, <<194808,138507>>, <<194809,146170>>,
    <<194810,27726>>, <<194811,146620>>, <<194812,27839>>, <<194813,27853>>,
    <<194814,27751>>, <<194815,27926>>, <<194816,27966>>, <<194817,28023>>,
    <<194818,27969>>, <<194819,28009>>, <<194820,28024>>, <<194821,28037>>,
    <<194822,146718>>, <<194823,27956>>, <<194824,28207>>, <<194825,28270>>,
    <<194826,15667>>, <<194827,28363>>, <<194828,28359>>, <<194829,147153>>,
    <<194830,28153>>, <<194831,28526>>, <<194832,147294>>, <<194833,147342>>,
    <<194834,28614>>, <<194835,28729>>, <<194836,28702>>, <<194837,28699>>,
    <<194838,15766>>, <<194839,28746>>, <<194840,28797>>, <<194841,28791>>,
    <<194842,28845>>, <<194843,132389>>, <<194844,28997>>, <<194845,148067>>,
    <<194846,29084>>, <<194847,148395>>, <<194848,29224>>, <<194849,29237>>,
    <<194850,29264>>, <<194851,149000>>, <<194852,29312>>, <<194853,29333>>,
    <<194854,149301>>, <<194855,149524>>, <<194856,29562>>, <<194857,29579>>,
    <<194858,16044>>, <<194859,29605>>, <<194860,16056>>, <<194861,16056>>,
    <<194862,29767>>, <<194863,29788>>, <<194864,29809>>, <<194865,29829>>,
    <<194866,29898>>, <<194867,16155>>, <<194868,29988>>, <<194869,150582>>,
    <<194870,30014>>, <<194871,150674>>, <<194872,30064>>, <<194873,139679>>,
    <<194874,30224>>, <<194875,151457>>, <<194876,151480>>, <<194877,151620>>,
    <<194878,16380>>, <<194879,16392>>, <<194880,30452>>, <<194881,151795>>,
    <<194882,151794>>, <<194883,151833>>, <<194884,151859>>, <<194885,30494>>,
    <<194886,30495>>, <<194887,30495>>, <<194888,30538>>, <<194889,16441>>,
    <<194890,30603>>, <<194891,16454>>, <<194892,16534>>, <<194893,152605>>,
    <<194894,30798>>, <<194895,30860>>, <<194896,30924>>, <<194897,16611>>,
    <<194898,153126>>, <<194899,31062>>, <<194900,153242>>, <<194901,153285>>,
    <<194902,31119>>, <<194903,31211>>, <<194904,16687>>, <<194905,31296>>,
    <<194906,31306>>, <<194907,31311>>, <<194908,153980>>, <<194909,154279>>,
    <<194910,154279>>, <<194911,31470>>, <<194912,16898>>, <<194913,154539>>,
    <<194914,31686>>, <<194915,31689>>, <<194916,16935>>, <<194917,154752>>,
    <<194918,31954>>, <<194919,17056>>, <<194920,31976>>, <<194921,31971>>,
    <<194922,32000>>, <<194923,155526>>, <<194924,32099>>, <<194925,17153>>,
    <<194926,32199>>, <<194927,32258>>, <<194928,32325>>, <<194929,17204>>,
    <<194930,156200>>, <<194931,156231>>, <<194932,17241>>, <<194933,156377>>,
    <<194934,32634>>, <<194935,156478>>, <<194936,32661>>, <<194937,32762>>,
    <<194938,32773>>, <<194939,156890>>, <<194940,156963>>, <<194941,32864>>,
    <<194942,157096>>, <<194943,32880>>, <<194944,144223>>, <<194945,17365>>,
    <<194946,32946>>, <<194947,33027>>, <<194948,17419>>, <<194949,33086>>,
    <<194950,23221>>, <<194951,157607>>, <<194952,157621>>, <<194953,144275>>,
    <<194954,144284>>, <<194955,33281>>, <<194956,33284>>, <<194957,36766>>,
    <<194958,17515>>, <<194959,33425>>, <<194960,33419>>, <<194961,33437>>,
    <<194962,21171>>, <<194963,33457>>, <<194964,33459>>, <<194965,33469>>,
    <<194966,33510>>, <<194967,158524>>, <<194968,33509>>, <<194969,33565>>,
    <<194970,33635>>, <<194971,33709>>, <<194972,33571>>, <<194973,33725>>,
    <<194974,33767>>, <<194975,33879>>, <<194976,33619>>, <<194977,33738>>,
    <<194978,33740>>, <<194979,33756>>, <<194980,158774>>, <<194981,159083>>,
    <<194982,158933>>, <<194983,17707>>, <<194984,34033>>, <<194985,34035>>,
    <<194986,34070>>, <<194987,160714>>, <<194988,34148>>, <<194989,159532>>,
    <<194990,17757>>, <<194991,17761>>, <<194992,159665>>, <<194993,159954>>,
    <<194994,17771>>, <<194995,34384>>, <<194996,34396>>, <<194997,34407>>,
    <<194998,34409>>, <<194999,34473>>, <<195000,34440>>, <<195001,34574>>,
    <<195002,34530>>, <<195003,34681>>, <<195004,34600>>, <<195005,34667>>,
    <<195006,34694>>, <<195007,17879>>, <<195008,34785>>, <<195009,34817>>,
    <<195010,17913>>, <<195011,34912>>, <<195012,34915>>, <<195013,161383>>,
    <<195014,35031>>, <<195015,35038>>, <<195016,17973>>, <<195017,35066>>,
    <<195018,13499>>, <<195019,161966>>, <<195020,162150>>, <<195021,18110>>,
    <<195022,18119>>, <<195023,35488>>, <<195024,35565>>, <<195025,35722>>,
    <<195026,35925>>, <<195027,162984>>, <<195028,36011>>, <<195029,36033>>,
    <<195030,36123>>, <<195031,36215>>, <<195032,163631>>, <<195033,133124>>,
    <<195034,36299>>, <<195035,36284>>, <<195036,36336>>, <<195037,133342>>,
    <<195038,36564>>, <<195039,36664>>, <<195040,165330>>, <<195041,165357>>,
    <<195042,37012>>, <<195043,37105>>, <<195044,37137>>, <<195045,165678>>,
    <<195046,37147>>, <<195047,37432>>, <<195048,37591>>, <<195049,37592>>,
    <<195050,37500>>, <<195051,37881>>, <<195052,37909>>, <<195053,166906>>,
    <<195054,38283>>, <<195055,18837>>, <<195056,38327>>, <<195057,167287>>,
    <<195058,18918>>, <<195059,38595>>, <<195060,23986>>, <<195061,38691>>,
    <<195062,168261>>, <<195063,168474>>, <<195064,19054>>, <<195065,19062>>,
    <<195066,38880>>, <<195067,168970>>, <<195068,19122>>, <<195069,169110>>,
    <<195070,38923>>, <<195071,38923>>, <<195072,38953>>, <<195073,169398>>,
    <<195074,39138>>, <<195075,19251>>, <<195076,39209>>, <<195077,39335>>,
    <<195078,39362>>, <<195079,39422>>, <<195080,19406>>, <<195081,170800>>,
    <<195082,39698>>, <<195083,40000>>, <<195084,40189>>, <<195085,19662>>,
    <<195086,19693>>, <<195087,40295>>, <<195088,172238>>, <<195089,19704>>,
    <<195090,172293>>, <<195091,172558>>, <<195092,172689>>, <<195093,40635>>,
    <<195094,19798>>, <<195095,40697>>, <<195096,40702>>, <<195097,40709>>,
    <<195098,40719>>, <<195099,40726>>, <<195100,40763>>, <<195101,173568>>
>>

\* <<character, characters>> of the other characters with a canonical
\* decomposition, Hangul syllables excepted: the decomposition without its Mn
\* characters of a class other than 0, with -1 in the place of each Mn
\* character of class 0
DecomposedMore == <<
    <<2507,<<2503,2494>>>>, <<2508,<<2503,2519>>>>, <<2888,<<2887,-1>>>>,
    <<2891,<<2887,2878>>>>, <<2892,<<2887,2903>>>>, <<2964,<<2962,3031>>>>,
    <<3018,<<3014,3006>>>>, <<3019,<<3015,3006>>>>, <<3020,<<3014,3031>>>>,
    <<3264,<<-1,3285>>>>, <<3271,<<-1,3285>>>>, <<3272,<<-1,3286>>>>,
    <<3274,<<-1,3266>>>>, <<3275,<<-1,3266,3285>>>>, <<3402,<<3398,3390>>>>,
    <<3403,<<3399,3390>>>>, <<3404,<<3398,3415>>>>, <<3548,<<3545,3535>>>>,
    <<3549,<<3545,3535>>>>, <<3550,<<3545,3551>>>>, <<3907,<<3906,-1>>>>,
    <<3917,<<3916,-1>>>>, <<3922,<<3921,-1>>>>, <<3927,<<3926,-1>>>>,
    <<3932,<<3931,-1>>>>, <<3945,<<3904,-1>>>>, <<3955,<<>>>>, <<3957,<<>>>>,
    <<3969,<<>>>>, <<3987,<<-1,-1>>>>, <<3997,<<-1,-1>>>>, <<4002,<<-1,-1>>>>,
    <<4007,<<-1,-1>>>>, <<4012,<<-1,-1>>>>, <<4025,<<-1,-1>>>>,
    <<4134,<<4133,-1>>>>, <<6918,<<6917,6965>>>>, <<6920,<<6919,6965>>>>,
    <<6922,<<6921,6965>>>>, <<6924,<<6923,6965>>>>, <<6926,<<6925,6965>>>>,
    <<6930,<<6929,6965>>>>, <<6971,<<-1,6965>>>>, <<6973,<<-1,6965>>>>,
    <<6976,<<6974,6965>>>>, <<6977,<<6975,6965>>>>, <<6979,<<-1,6965>>>>,
    <<69934,<<-1,-1>>>>, <<69935,<<-1,-1>>>>, <<70475,<<70471,70462>>>>,
    <<70476,<<70471,70487>>>>, <<70843,<<70841,-1>>>>,
    <<70844,<<70841,70832>>>>, <<70846,<<70841,70845>>>>,
    <<71098,<<71096,71087>>>>, <<71099,<<71097,71087>>>>,
    <<71992,<<71989,71984>>>>, <<119134,<<119127,119141>>>>,
    <<119135,<<119128,119141>>>>, <<119136,<<119128,119141,119150>>>>,
    <<119137,<<119128,119141,119151>>>>, <<119138,<<119128,119141,119152>>>>,
    <<119139,<<119128,119141,119153>>>>, <<119140,<<119128,119141,119154>>>>,
    <<119227,<<119225,119141>>>>, <<119228,<<119226,119141>>>>,
    <<119229,<<119225,119141,119150>>>>, <<119230,<<119226,119141,119150>>>>,
    <<119231,<<119225,119141,119151>>>>, <<119232,<<119226,119141,119151>>>>
>>

\* str.lower() of one character: <<first, last, step, offset>>, the characters
\* first, first + step, ..., last become the character offset further
Lowered == <<
    <<65,90,1,32>>, <<192,214,1,32>>, <<216,222,1,32>>, <<256,302,2,1>>,
    <<306,310,2,1>>, <<313,327,2,1>>, <<330,374,2,1>>, <<376,376,1,-121>>,
    <<377,381,2,1>>, <<385,385,1,210>>, <<386,388,2,1>>, <<390,390,1,206>>,
    <<391,391,1,1>>, <<393,394,1,205>>, <<395,395,1,1>>, <<398,398,1,79>>,
    <<399,399,1,202>>, <<400,400,1,203>>, <<401,401,1,1>>, <<403,403,1,205>>,
    <<404,404,1,207>>, <<406,406,1,211>>, <<407,407,1,209>>, <<408,408,1,1>>,
    <<412,412,1,211>>, <<413,413,1,213>>, <<415,415,1,214>>, <<416,420,2,1>>,
    <<422,422,1,218>>, <<423,423,1,1>>, <<425,425,1,218>>, <<428,428,1,1>>,
    <<430,430,1,218>>, <<431,431,1,1>>, <<433,434,1,217>>, <<435,437,2,1>>,
    <<439,439,1,219>>, <<440,440,1,1>>, <<444,444,1,1>>, <<452,452,1,2>>,
    <<453,453,1,1>>, <<455,455,1,2>>, <<456,456,1,1>>, <<458,458,1,2>>,
    <<459,475,2,1>>, <<478,494,2,1>>, <<497,497,1,2>>, <<498,500,2,1>>,
    <<502,502,1,-97>>, <<503,503,1,-56>>, <<504,542,2,1>>, <<544,544,1,-130>>,
    <<546,562,2,1>>, <<570,570,1,10795>>, <<571,571,1,1>>, <<573,573,1,-163>>,
    <<574,574,1,10792>>, <<577,577,1,1>>, <<579,579,1,-195>>,
    <<580,580,1,69>>, <<581,581,1,71>>, <<582,590,2,1>>, <<880,882,2,1>>,
    <<886,886,1,1>>, <<895,895,1,116>>, <<902,902,1,38>>, <<904,906,1,37>>,
    <<908,908,1,64>>, <<910,911,1,63>>, <<913,929,1,32>>, <<931,939,1,32>>,
    <<975,975,1,8>>, <<984,1006,2,1>>, <<1012,1012,1,-60>>, <<1015,1015,1,1>>,
    <<1017,1017,1,-7>>, <<1018,1018,1,1>>, <<1021,1023,1,-130>>,
    <<1024,1039,1,80>>, <<1040,1071,1,32>>, <<1120,1152,2,1>>,
    <<1162,1214,2,1>>, <<1216,1216,1,15>>, <<1217,1229,2,1>>,
    <<1232,1326,2,1>>, <<1329,1366,1,48>>, <<4256,4293,1,7264>>,
    <<4295,4295,1,7264>>, <<4301,4301,1,7264>>, <<5024,5103,1,38864>>,
    <<5104,5109,1,8>>, <<7312,7354,1,-3008>>, <<7357,7359,1,-3008>>,
    <<7680,7828,2,1>>, <<7838,7838,1,-7615>>, <<7840,7934,2,1>>,
    <<7944,7951,1,-8>>, <<7960,7965,1,-8>>, <<7976,7983,1,-8>>,
    <<7992,7999,1,-8>>, <<8008,8013,1,-8>>, <<8025,8031,2,-8>>,
    <<8040,8047,1,-8>>, <<8072,8079,1,-8>>, <<8088,8095,1,-8>>,
    <<8104,8111,1,-8>>, <<8120,8121,1,-8>>, <<8122,8123,1,-74>>,
    <<8124,8124,1,-9>>, <<8136,8139,1,-86>>, <<8140,8140,1,-9>>,
    <<8152,8153,1,-8>>, <<8154,8155,1,-100>>, <<8168,8169,1,-8>>,
    <<8170,8171,1,-112>>, <<8172,8172,1,-7>>, <<8184,8185,1,-128>>,
    <<8186,8187,1,-126>>, <<8188,8188,1,-9>>, <<8486,8486,1,-7517>>,
    <<8490,8490,1,-8383>>, <<8491,8491,1,-8262>>, <<8498,8498,1,28>>,
    <<8544,8559,1,16>>, <<8579,8579,1,1>>, <<9398,9423,1,26>>,
    <<11264,11311,1,48>>, <<11360,11360,1,1>>, <<11362,11362,1,-10743>>,
    <<11363,11363,1,-3814>>, <<11364,11364,1,-10727>>, <<11367,11371,2,1>>,
    <<11373,11373,1,-10780>>, <<11374,11374,1,-10749>>,
    <<11375,11375,1,-10783>>, <<11376,11376,1,-10782>>, <<11378,11378,1,1>>,
    <<11381,11381,1,1>>, <<11390,11391,1,-10815>>, <<11392,11490,2,1>>,
    <<11499,11501,2,1>>, <<11506,11506,1,1>>, <<42560,42604,2,1>>,
    <<42624,42650,2,1>>, <<42786,42798,2,1>>, <<42802,42862,2,1>>,
    <<42873,42875,2,1>>, <<42877,42877,1,-35332>>, <<42878,42886,2,1>>,
    <<42891,42891,1,1>>, <<42893,42893,1,-42280>>, <<42896,42898,2,1>>,
    <<42902,42920,2,1>>, <<42922,42922,1,-42308>>, <<42923,42923,1,-42319>>,
    <<42924,42924,1,-42315>>, <<42925,42925,1,-42305>>,
    <<42926,42926,1,-42308>>, <<42928,42928,1,-42258>>,
    <<42929,42929,1,-42282>>, <<42930,42930,1,-42261>>, <<42931,42931,1,928>>,
    <<42932,42946,2,1>>, <<42948,42948,1,-48>>, <<42949,42949,1,-42307>>,
    <<42950,42950,1,-35384>>, <<42951,42953,2,1>>, <<42960,42960,1,1>>,
    <<42966,42968,2,1>>, <<42997,42997,1,1>>, <<65313,65338,1,32>>,
    <<66560,66599,1,40>>, <<66736,66771,1,40>>, <<66928,66964,2,39>>,
    <<66929,66937,2,39>>, <<66941,66953,2,39>>, <<66957,66961,2,39>>,
    <<66965,66965,1,39>>, <<68736,68786,1,64>>, <<71840,71871,1,32>>,
    <<93760,93791,1,32>>, <<125184,125217,1,34>>
>>

\* the runs of the characters with the property Case_Ignorable
CaseIgnorable == <<
    <<39,39>>, <<46,46>>, <<58,58>>, <<94,94>>, <<96,96>>, <<168,168>>,
    <<173,173>>, <<175,175>>, <<180,180>>, <<183,184>>, <<688,879>>,
    <<884,885>>, <<890,890>>, <<900,901>>, <<903,903>>, <<1155,1161>>,
    <<1369,1369>>, <<1375,1375>>, <<1425,1469>>, <<1471,1471>>, <<1473,1474>>,
    <<1476,1477>>, <<1479,1479>>, <<1524,1524>>, <<1536,1541>>, <<1552,1562>>,
    <<1564,1564>>, <<1600,1600>>, <<1611,1631>>, <<1648,1648>>, <<1750,1757>>,
    <<1759,1768>>, <<1770,1773>>, <<1807,1807>>, <<1809,1809>>, <<1840,1866>>,
    <<1958,1968>>, <<2027,2037>>, <<2042,2042>>, <<2045,2045>>, <<2070,2093>>,
    <<2137,2139>>, <<2184,2184>>, <<2192,2193>>, <<2200,2207>>, <<2249,2306>>,
    <<2362,2362>>, <<2364,2364>>, <<2369,2376>>, <<2381,2381>>, <<2385,2391>>,
    <<2402,2403>>, <<2417,2417>>, <<2433,2433>>, <<2492,2492>>, <<2497,2500>>,
    <<2509,2509>>, <<2530,2531>>, <<2558,2558>>, <<2561,2562>>, <<2620,2620>>,
    <<2625,2626>>, <<2631,2632>>, <<2635,2637>>, <<2641,2641>>, <<2672,2673>>,
    <<2677,2677>>, <<2689,2690>>, <<2748,2748>>, <<2753,2757>>, <<2759,2760>>,
    <<2765,2765>>, <<2786,2787>>, <<2810,2815>>, <<2817,2817>>, <<2876,2876>>,
    <<2879,2879>>, <<2881,2884>>, <<2893,2893>>, <<2901,2902>>, <<2914,2915>>,
    <<2946,2946>>, <<3008,3008>>, <<3021,3021>>, <<3072,3072>>, <<3076,3076>>,
    <<3132,3132>>, <<3134,3136>>, <<3142,3144>>, <<3146,3149>>, <<3157,3158>>,
    <<3170,3171>>, <<3201,3201>>, <<3260,3260>>, <<3263,3263>>, <<3270,3270>>,
    <<3276,3277>>, <<3298,3299>>, <<3328,3329>>, <<3387,3388>>, <<3393,3396>>,
    <<3405,3405>>, <<3426,3427>>, <<3457,3457>>, <<3530,3530>>, <<3538,3540>>,
    <<3542,3542>>, <<3633,3633>>, <<3636,3642>>, <<3654,3662>>, <<3761,3761>>,
    <<3764,3772>>, <<3782,3782>>, <<3784,3789>>, <<3864,3865>>, <<3893,3893>>,
    <<3895,3895>>, <<3897,3897>>, <<3953,3966>>, <<3968,3972>>, <<3974,3975>>,
    <<3981,3991>>, <<3993,4028>>, <<4038,4038>>, <<4141,4144>>, <<4146,4151>>,
    <<4153,4154>>, <<4157,4158>>, <<4184,4185>>, <<4190,4192>>, <<4209,4212>>,
    <<4226,4226>>, <<4229,4230>>, <<4237,4237>>, <<4253,4253>>, <<4348,4348>>,
    <<4957,4959>>, <<5906,5908>>, <<5938,5939>>, <<5970,5971>>, <<6002,6003>>,
    <<6068,6069>>, <<6071,6077>>, <<6086,6086>>, <<6089,6099>>, <<6103,6103>>,
    <<6109,6109>>, <<6155,6159>>, <<6211,6211>>, <<6277,6278>>, <<6313,6313>>,
    <<6432,6434>>, <<6439,6440>>, <<6450,6450>>, <<6457,6459>>, <<6679,6680>>,
    <<6683,6683>>, <<6742,6742>>, <<6744,6750>>, <<6752,6752>>, <<6754,6754>>,
    <<6757,6764>>, <<6771,6780>>, <<6783,6783>>, <<6823,6823>>, <<6832,6862>>,
    <<6912,6915>>, <<6964,6964>>, <<6966,6970>>, <<6972,6972>>, <<6978,6978>>,
    <<7019,7027>>, <<7040,7041>>, <<7074,7077>>, <<7080,7081>>, <<7083,7085>>,
    <<7142,7142>>, <<7144,7145>>, <<7149,7149>>, <<7151,7153>>, <<7212,7219>>,
    <<7222,7223>>, <<7288,7293>>, <<7376,7378>>, <<7380,7392>>, <<7394,7400>>,
    <<7405,7405>>, <<7412,7412>>, <<7416,7417>>, <<7468,7530>>, <<7544,7544>>,
    <<7579,7679>>, <<8125,8125>>, <<8127,8129>>, <<8141,8143>>, <<8157,8159>>,
    <<8173,8175>>, <<8189,8190>>, <<8203,8207>>, <<8216,8217>>, <<8228,8228>>,
    <<8231,8231>>, <<8234,8238>>, <<8288,8292>>, <<8294,8303>>, <<8305,8305>>,
    <<8319,8319>>, <<8336,8348>>, <<8400,8432>>, <<11388,11389>>,
    <<11503,11505>>, <<11631,11631>>, <<11647,11647>>, <<11744,11775>>,
    <<11823,11823>>, <<12293,12293>>, <<12330,12333>>, <<12337,12341>>,
    <<12347,12347>>, <<12441,12446>>, <<12540,12542>>, <<40981,40981>>,
    <<42232,42237>>, <<42508,42508>>, <<42607,42610>>, <<42612,42621>>,
    <<42623,42623>>, <<42652,42655>>, <<42736,42737>>, <<42752,42785>>,
    <<42864,42864>>, <<42888,42890>>, <<42994,42996>>, <<43000,43001>>,
    <<43010,43010>>, <<43014,43014>>, <<43019,43019>>, <<43045,43046>>,
    <<43052,43052>>, <<43204,43205>>, <<43232,43249>>, <<43263,43263>>,
    <<43302,43309>>, <<43335,43345>>, <<43392,43394>>, <<43443,43443>>,
    <<43446,43449>>, <<43452,43453>>, <<43471,43471>>, <<43493,43494>>,
    <<43561,43566>>, <<43569,43570>>, <<43573,43574>>, <<43587,43587>>,
    <<43596,43596>>, <<43632,43632>>, <<43644,43644>>, <<43696,43696>>,
    <<43698,43700>>, <<43703,43704>>, <<43710,43711>>, <<43713,43713>>,
    <<43741,43741>>, <<43756,43757>>, <<43763,43764>>, <<43766,43766>>,
    <<43867,43871>>, <<43881,43883>>, <<44005,44005>>, <<44008,44008>>,
    <<44013,44013>>, <<64286,64286>>, <<64434,64450>>, <<65024,65039>>,
    <<65043,65043>>, <<65056,65071>>, <<65106,65106>>, <<65109,65109>>,
    <<65279,65279>>, <<65287,65287>>, <<65294,65294>>, <<65306,65306>>,
    <<65342,65342>>, <<65344,65344>>, <<65392,65392>>, <<65438,65439>>,
    <<65507,65507>>, <<65529,65531>>, <<66045,66045>>, <<66272,66272>>,
    <<66422,66426>>, <<67456,67461>>, <<67463,67504>>, <<67506,67514>>,
    <<68097,68099>>, <<68101,68102>>, <<68108,68111>>, <<68152,68154>>,
    <<68159,68159>>, <<68325,68326>>, <<68900,68903>>, <<69291,69292>>,
    <<69446,69456>>, <<69506,69509>>, <<69633,69633>>, <<69688,69702>>,
    <<69744,69744>>, <<69747,69748>>, <<69759,69761>>, <<69811,69814>>,
    <<69817,69818>>, <<69821,69821>>, <<69826,69826>>, <<69837,69837>>,
    <<69888,69890>>, <<69927,69931>>, <<69933,69940>>, <<70003,70003>>,
    <<70016,70017>>, <<70070,70078>>, <<70089,70092>>, <<70095,70095>>,
    <<70191,70193>>, <<70196,70196>>, <<70198,70199>>, <<70206,70206>>,
    <<70367,70367>>, <<70371,70378>>, <<70400,70401>>, <<70459,70460>>,
    <<70464,70464>>, <<70502,70508>>, <<70512,70516>>, <<70712,70719>>,
    <<70722,70724>>, <<70726,70726>>, <<70750,70750>>, <<70835,70840>>,
    <<70842,70842>>, <<70847,70848>>, <<70850,70851>>, <<71090,71093>>,
    <<71100,71101>>, <<71103,71104>>, <<71132,71133>>, <<71219,71226>>,
    <<71229,71229>>, <<71231,71232>>, <<71339,71339>>, <<71341,71341>>,
    <<71344,71349>>, <<71351,71351>>, <<71453,71455>>, <<71458,71461>>,
    <<71463,71467>>, <<71727,71735>>, <<71737,71738>>, <<71995,71996>>,
    <<71998,71998>>, <<72003,72003>>, <<72148,72151>>, <<72154,72155>>,
    <<72160,72160>>, <<72193,72202>>, <<72243,72248>>, <<72251,72254>>,
    <<72263,72263>>, <<72273,72278>>, <<72281,72283>>, <<72330,72342>>,
    <<72344,72345>>, <<72752,72758>>, <<72760,72765>>, <<72767,72767>>,
    <<72850,72871>>, <<72874,72880>>, <<72882,72883>>, <<72885,72886>>,
    <<73009,73014>>, <<73018,73018>>, <<73020,73021>>, <<73023,73029>>,
    <<73031,73031>>, <<73104,73105>>, <<73109,73109>>, <<73111,73111>>,
    <<73459,73460>>, <<78896,78904>>, <<92912,92916>>, <<92976,92982>>,
    <<92992,92995>>, <<94031,94031>>, <<94095,94111>>, <<94176,94177>>,
    <<94179,94180>>, <<110576,110579>>, <<110581,110587>>, <<110589,110590>>,
    <<113821,113822>>, <<113824,113827>>, <<118528,118573>>,
    <<118576,118598>>, <<119143,119145>>, <<119155,119170>>,
    <<119173,119179>>, <<119210,119213>>, <<119362,119364>>,
    <<121344,121398>>, <<121403,121452>>, <<121461,121461>>,
    <<121476,121476>>, <<121499,121503>>, <<121505,121519>>,
    <<122880,122886>>, <<122888,122904>>, <<122907,122913>>,
    <<122915,122916>>, <<122918,122922>>, <<123184,123197>>,
    <<123566,123566>>, <<123628,123631>>, <<125136,125142>>,
    <<125252,125259>>, <<127995,127999>>, <<917505,917505>>,
    <<917536,917631>>, <<917760,917999>>
>>

\* the runs of the characters with the property Cased and without the property
\* Case_Ignorable
CasedOnly == <<
    <<65,90>>, <<97,122>>, <<170,170>>, <<181,181>>, <<186,186>>, <<192,214>>,
    <<216,246>>, <<248,442>>, <<444,447>>, <<452,659>>, <<661,687>>,
    <<880,883>>, <<886,887>>, <<891,893>>, <<895,895>>, <<902,902>>,
    <<904,906>>, <<908,908>>, <<910,929>>, <<931,1013>>, <<1015,1153>>,
    <<1162,1327>>, <<1329,1366>>, <<1376,1416>>, <<4256,4293>>, <<4295,4295>>,
    <<4301,4301>>, <<4304,4346>>, <<4349,4351>>, <<5024,5109>>, <<5112,5117>>,
    <<7296,7304>>, <<7312,7354>>, <<7357,7359>>, <<7424,7467>>, <<7531,7543>>,
    <<7545,7578>>, <<7680,7957>>, <<7960,7965>>, <<7968,8005>>, <<8008,8013>>,
    <<8016,8023>>, <<8025,8025>>, <<8027,8027>>, <<8029,8029>>, <<8031,8061>>,
    <<8064,8116>>, <<8118,8124>>, <<8126,8126>>, <<8130,8132>>, <<8134,8140>>,
    <<8144,8147>>, <<8150,8155>>, <<8160,8172>>, <<8178,8180>>, <<8182,8188>>,
    <<8450,8450>>, <<8455,8455>>, <<8458,8467>>, <<8469,8469>>, <<8473,8477>>,
    <<8484,8484>>, <<8486,8486>>, <<8488,8488>>, <<8490,8493>>, <<8495,8500>>,
    <<8505,8505>>, <<8508,8511>>, <<8517,8521>>, <<8526,8526>>, <<8544,8575>>,
    <<8579,8580>>, <<9398,9449>>, <<11264,11387>>, <<11390,11492>>,
    <<11499,11502>>, <<11506,11507>>, <<11520,11557>>, <<11559,11559>>,
    <<11565,11565>>, <<42560,42605>>, <<42624,42651>>, <<42786,42863>>,
    <<42865,42887>>, <<42891,42894>>, <<42896,42954>>, <<42960,42961>>,
    <<42963,42963>>, <<42965,42969>>, <<42997,42998>>, <<43002,43002>>,
    <<43824,43866>>, <<43872,43880>>, <<43888,43967>>, <<64256,64262>>,
    <<64275,64279>>, <<65313,65338>>, <<65345,65370>>, <<66560,66639>>,
    <<66736,66771>>, <<66776,66811>>, <<66928,66938>>, <<66940,66954>>,
    <<66956,66962>>, <<66964,66965>>, <<66967,66977>>, <<66979,66993>>,
    <<66995,67001>>, <<67003,67004>>, <<68736,68786>>, <<68800,68850>>,
    <<71840,71903>>, <<93760,93823>>, <<119808,119892>>, <<119894,119964>>,
    <<119966,119967>>, <<119970,119970>>, <<119973,119974>>,
    <<119977,119980>>, <<119982,119993>>, <<119995,119995>>,
    <<119997,120003>>, <<120005,120069>>, <<120071,120074>>,
    <<120077,120084>>, <<120086,120092>>, <<120094,120121>>,
    <<120123,120126>>, <<120128,120132>>, <<120134,120134>>,
    <<120138,120144>>, <<120146,120485>>, <<120488,120512>>,
    <<120514,120538>>, <<120540,120570>>, <<120572,120596>>,
    <<120598,120628>>, <<120630,120654>>, <<120656,120686>>,
    <<120688,120712>>, <<120714,120744>>, <<120746,120770>>,
    <<120772,120779>>, <<122624,122633>>, <<122635,122654>>,
    <<125184,125251>>, <<127280,127305>>, <<127312,127337>>, <<127344,127369>>
>>


\* ---------------------------------------------------------------- strings

Range(s) == {s[i] : i \in 1..Len(s)}

\* a < b for Python str (lexicographic by code point)
RECURSIVE StrLess(_, _)
StrLess(a, b) ==
    IF b = <<>> THEN FALSE
    ELSE IF a = <<>> THEN TRUE
    ELSE IF Head(a) < Head(b) THEN TRUE
    ELSE IF Head(a) > Head(b) THEN FALSE
    ELSE StrLess(Tail(a), Tail(b))

\* insertion of x into a sorted list, after the elements that are <= x
RECURSIVE Insert(_, _)
Insert(x, arr) ==
    IF arr = <<>> THEN <<x>>
    ELSE IF StrLess(x, Head(arr)) THEN <<x>> \o arr
    ELSE <<Head(arr)>> \o Insert(x, Tail(arr))

\* sorted(arr) for a list of strings (duplicates kept)
RECURSIVE sorted(_)
sorted(arr) ==
    IF arr = <<>> THEN <<>> ELSE Insert(Head(arr), sorted(Tail(arr)))

\* the elements of a Python set as a list, least first
RECURSIVE SortedSet(_)
SortedSet(S) ==
    IF S = {} THEN <<>>
    ELSE LET m == CHOOSE x \in S : \A y \in S \ {x} : StrLess(x, y)
         IN  <<m>> \o SortedSet(S \ {m})

\* (DELIM + ' ').join(arr)
RECURSIVE Join(_)
Join(arr) ==
    IF arr = <<>> THEN <<>>
    ELSE IF Len(arr) = 1 THEN Head(arr)
    ELSE Head(arr) \o <<DELIM, SPACE>> \o Join(Tail(arr))

\* arr2str of a list
arr2str(arr) == Join(sorted(arr))

\* arr2str of a set
arr2strSet(S) == Join(SortedSet(S))

RECURSIVE LStrip(_)
LStrip(s) ==
    IF s # <<>> /\ Head(s) \in Whitespace THEN LStrip(Tail(s)) ELSE s

RECURSIVE RStrip(_)
RStrip(s) ==
    IF s # <<>> /\ s[Len(s)] \in Whitespace
    THEN RStrip(SubSeq(s, 1, Len(s) - 1)) ELSE s

\* str.strip()
strip(s) == RStrip(LStrip(s))

\* s.split(DELIM)
RECURSIVE Split(_)
Split(s) ==
    IF s = <<>> THEN << <<>> >>
    ELSE LET rest == Split(Tail(s))
         IN  IF Head(s) = DELIM THEN << <<>> >> \o rest
             ELSE << <<Head(s)>> \o Head(rest) >> \o Tail(rest)

\* s.split(DELIM + ' ')
RECURSIVE SplitSep(_)
SplitSep(s) ==
    IF s = <<>> THEN << <<>> >>
    ELSE IF Len(s) >= 2 /\ s[1] = DELIM /\ s[2] = SPACE
    THEN << <<>> >> \o SplitSep(SubSeq(s, 3, Len(s)))
    ELSE LET rest == SplitSep(Tail(s))
         IN  << <<Head(s)>> \o Head(rest) >> \o Tail(rest)

StripAll(tokens) == [i \in 1..Len(tokens) |-> strip(tokens[i])]

\* str.isdigit()
isdigit(s) == s # <<>> /\ \A i \in 1..Len(s) : s[i] \in Digits \cup SuperDigits

\* a string without its leading zeros, of whatever script
DropZeros(s) ==
    IF Range(s) \subseteq DecimalZeros THEN <<>>
    ELSE SubSeq(s, CHOOSE i \in 1..Len(s) :
                       /\ s[i] \notin DecimalZeros
                       /\ \A j \in 1..(i - 1) : s[j] \in DecimalZeros,
                Len(s))

\* the numbers of the program that are read from a line are compared with
\* counts below MaxInt only: a numeral of more than nine digits stands for
\* MaxInt
MaxInt == 1000000000

RECURSIVE DigitsSum(_)
DigitsSum(s) ==
    IF s = <<>> THEN 0
    ELSE 10 * DigitsSum(SubSeq(s, 1, Len(s) - 1)) + DigitValue(s[Len(s)])

\* the value of a string of decimal digits, MaxInt at most
DigitsValue(s) ==
    IF Len(DropZeros(s)) > 9 THEN MaxInt ELSE DigitsSum(DropZeros(s))

\* the index of the row of a table sorted by its first column whose first
\* column is c, among the rows a to b; 0 if there is none
RECURSIVE Find(_, _, _, _)
Find(table, c, a, b) ==
    IF a > b THEN 0
    ELSE IF c < table[(a + b) \div 2][1]
    THEN Find(table, c, a, ((a + b) \div 2) - 1)
    ELSE IF c > table[(a + b) \div 2][1]
    THEN Find(table, c, ((a + b) \div 2) + 1, b)
    ELSE (a + b) \div 2

\* the index of the run <<first, last>> of a sorted table that holds c, among
\* the rows a to b; 0 if there is none
RECURSIVE Locate(_, _, _, _)
Locate(table, c, a, b) ==
    IF a > b THEN 0
    ELSE IF c < table[(a + b) \div 2][1]
    THEN Locate(table, c, a, ((a + b) \div 2) - 1)
    ELSE IF c > table[(a + b) \div 2][2]
    THEN Locate(table, c, ((a + b) \div 2) + 1, b)
    ELSE (a + b) \div 2

InRuns(table, c) == Locate(table, c, 1, Len(table)) # 0

\* the canonical decomposition of a Hangul syllable: its two or three jamo
Hangul(s) ==
    <<4352 + (s \div 588), 4449 + ((s % 588) \div 28)>> \o
    (IF s % 28 = 0 THEN <<>> ELSE <<4519 + (s % 28)>>)

\* what unicodedata.normalize('NFD', c) gives for one character, before the
\* reordering of the marks: the Mn characters of a class other than 0 are
\* left out as normalize() drops them, those of class 0 are -1
Decomposed(c) ==
    IF c < 128 THEN <<c>>
    ELSE IF c \in 44032..55203 THEN Hangul(c - 44032)
    ELSE IF Find(DecomposedOne, c, 1, Len(DecomposedOne)) # 0
    THEN <<DecomposedOne[Find(DecomposedOne, c, 1, Len(DecomposedOne))][2]>>
    ELSE IF Find(DecomposedMore, c, 1, Len(DecomposedMore)) # 0
    THEN DecomposedMore[Find(DecomposedMore, c, 1, Len(DecomposedMore))][2]
    ELSE IF InRuns(MnCombining, c) THEN <<>>
    ELSE IF InRuns(MnStarters, c) THEN << -1 >>
    ELSE <<c>>

\* the canonical combining class of a character that is no Mn of a class
\* other than 0
CombiningClass(c) ==
    IF c < 128 \/ Find(Combining, c, 1, Len(Combining)) = 0 THEN 0
    ELSE Combining[Find(Combining, c, 1, Len(Combining))][2]

\* the canonical ordering: x is put after seq and before the marks at its end
\* that have a greater class
RECURSIVE InsertMark(_, _)
InsertMark(seq, x) ==
    IF /\ seq # <<>>
       /\ CombiningClass(x) # 0
       /\ CombiningClass(seq[Len(seq)]) > CombiningClass(x)
    THEN Append(InsertMark(SubSeq(seq, 1, Len(seq) - 1), x), seq[Len(seq)])
    ELSE Append(seq, x)

RECURSIVE InsertMarks(_, _)
InsertMarks(seq, xs) ==
    IF xs = <<>> THEN seq
    ELSE InsertMarks(InsertMark(seq, Head(xs)), Tail(xs))

\* unicodedata.normalize('NFD', string) of the rest of a string, put after
\* done
RECURSIVE Ordered(_, _)
Ordered(done, string) ==
    IF string = <<>> THEN done
    ELSE Ordered(InsertMarks(done, Decomposed(Head(string))), Tail(string))

\* normalize(string): the canonical decomposition without its characters of
\* category Mn
normalize(string) == SelectSeq(Ordered(<<>>, string), LAMBDA c : c # -1)

\* the rows of Lowered that hold c
LoweredRows(c) ==
    {i \in 1..Len(Lowered) :
        /\ c \in Lowered[i][1]..Lowered[i][2]
        /\ (c - Lowered[i][1]) % Lowered[i][3] = 0}

\* str.lower() of one character that is no capital sigma: the capital I with
\* a dot above (304) becomes i and a combining dot above
LowerOne(c) ==
    IF c < 128 THEN (IF c \in 65..90 THEN <<c + 32>> ELSE <<c>>)
    ELSE IF c = 304 THEN <<105, 775>>
    ELSE IF LoweredRows(c) = {} THEN <<c>>
    ELSE <<c + Lowered[CHOOSE i \in LoweredRows(c) : TRUE][4]>>

\* the position of the first character that is not case-ignorable, from j
\* backwards (0 if none) and from j on (Len(s) + 1 if none)
RECURSIVE Back(_, _)
Back(s, j) ==
    IF j >= 1 /\ InRuns(CaseIgnorable, s[j]) THEN Back(s, j - 1) ELSE j

RECURSIVE Forth(_, _)
Forth(s, j) ==
    IF j <= Len(s) /\ InRuns(CaseIgnorable, s[j]) THEN Forth(s, j + 1) ELSE j

\* the capital sigma at i ends a word: a cased letter precedes it and none
\* follows it, case-ignorable characters skipped
FinalSigma(s, i) ==
    /\ Back(s, i - 1) >= 1
    /\ InRuns(CasedOnly, s[Back(s, i - 1)])
    /\ \/ Forth(s, i + 1) > Len(s)
       \/ ~InRuns(CasedOnly, s[Forth(s, i + 1)])

RECURSIVE LowerFrom(_, _)
LowerFrom(s, i) ==
    IF i > Len(s) THEN <<>>
    ELSE (IF s[i] = 931
          THEN <<IF FinalSigma(s, i) THEN 962 ELSE 963>>
          ELSE LowerOne(s[i])) \o LowerFrom(s, i + 1)

\* str.lower()
Lower(s) == LowerFrom(s, 1)

\* while '  ' in string: string = string.replace('  ', ' ')
RECURSIVE Collapse(_)
Collapse(s) ==
    IF Len(s) < 2 THEN s
    ELSE IF s[1] = SPACE /\ s[2] = SPACE THEN Collapse(Tail(s))
    ELSE <<Head(s)>> \o Collapse(Tail(s))

adjust_str(string) == Collapse(Lower(normalize(string)))

\* a string without the characters of a set at its ends
RECURSIVE Trim(_, _)
Trim(s, chars) ==
    IF s # <<>> /\ Head(s) \in chars THEN Trim(Tail(s), chars)
    ELSE IF s # <<>> /\ s[Len(s)] \in chars
    THEN Trim(SubSeq(s, 1, Len(s) - 1), chars)
    ELSE s

\* every underscore of a numeral stands between two digits
Separated(s) ==
    \A i \in 1..Len(s) :
        s[i] = 95 => /\ i > 1 /\ i < Len(s)
                     /\ s[i - 1] \in Digits /\ s[i + 1] \in Digits

\* the numeral int() and float() read in a string: the blanks around it are
\* skipped and the underscores between its digits dropped; <<>> where an
\* underscore stands elsewhere
Numeral(s) ==
    IF Separated(Trim(s, NumberSpace))
    THEN SelectSeq(Trim(s, NumberSpace), LAMBDA c : c # 95)
    ELSE <<>>

\* a numeral without its sign
Unsigned(s) == IF s # <<>> /\ Head(s) \in {43, 45} THEN Tail(s) ELSE s

\* an optional sign and decimal digits
IsSigned(s) == Unsigned(s) # <<>> /\ Range(Unsigned(s)) \subseteq Digits

\* the value of an optional sign and decimal digits
SignedValue(s) ==
    IF Head(s) = 45 THEN 0 - DigitsValue(Tail(s)) ELSE DigitsValue(Unsigned(s))

\* sys.int_info.default_max_str_digits: int() raises ValueError on a numeral
\* of more digits
MAX_STR_DIGITS == 4300

\* int(s) succeeds
IsInt(s) ==
    IsSigned(Numeral(s)) /\ Len(Unsigned(Numeral(s))) <= MAX_STR_DIGITS

\* int(s), MaxInt at most in size
IntValue(s) == SignedValue(Numeral(s))

\* ---------------------------------------------------------------- numbers

\* NEG_PREFIXES = 'mμnpfazyrq'
NEG_PREFIXES == <<109, 956, 110, 112, 102, 97, 122, 121, 114, 113>>
\* POS_PREFIXES = 'kMGTPEZYRQ'
POS_PREFIXES == <<107, 77, 71, 84, 80, 69, 90, 89, 82, 81>>

\* str(n) of an int
RECURSIVE Decimal(_)
Decimal(n) ==
    IF n < 0 THEN <<45>> \o Decimal(0 - n)
    ELSE IF n < 10 THEN <<48 + n>>
    ELSE Decimal(n \div 10) \o <<48 + (n % 10)>>

\* the first position of a character of the set in the string, 0 if none
IndexOf(s, chars) ==
    IF \E i \in 1..Len(s) : s[i] \in chars
    THEN CHOOSE i \in 1..Len(s) :
             s[i] \in chars /\ \A j \in 1..(i - 1) : s[j] \notin chars
    ELSE 0

\* a list of digits without its leading zeros and without its last zeros
RECURSIVE DropLeading(_)
DropLeading(ds) ==
    IF ds # <<>> /\ Head(ds) = 0 THEN DropLeading(Tail(ds)) ELSE ds

RECURSIVE DropLast(_)
DropLast(ds) ==
    IF ds # <<>> /\ ds[Len(ds)] = 0
    THEN DropLast(SubSeq(ds, 1, Len(ds) - 1)) ELSE ds

\* what float() gives: ok is FALSE where it raises ValueError; kind tells a
\* number from inf and nan; a number is the exact decimal it denotes, m the
\* list of its significant digits (<<>> for zero) and x the power of ten of
\* the last of them
NotFloat == [ok |-> FALSE, kind |-> "num", neg |-> FALSE, m |-> <<>>, x |-> 0]

Special(neg, kind) ==
    [ok |-> TRUE, kind |-> kind, neg |-> neg, m |-> <<>>, x |-> 0]

\* the number with the digits all, the last of them of the power x of ten
Significant(neg, all, x) ==
    [ok |-> TRUE, kind |-> "num", neg |-> neg,
     m |-> DropLast(DropLeading(all)),
     x |-> x + Len(DropLeading(all)) - Len(DropLast(DropLeading(all)))]

\* the digits of a literal read: ip.fp with the exponent field expo
ParseDigits(neg, ip, fp, hasexp, expo) ==
    IF \/ ip \o fp = <<>>
       \/ ~(Range(ip \o fp) \subseteq Digits)
       \/ (hasexp /\ ~IsSigned(expo))
    THEN NotFloat
    ELSE Significant(neg,
                     [i \in 1..Len(ip \o fp) |-> DigitValue((ip \o fp)[i])],
                     (IF hasexp THEN SignedValue(expo) ELSE 0) - Len(fp))

\* the mantissa split at its point
ParseMantissa(neg, mant, dot, hasexp, expo) ==
    ParseDigits(neg,
                IF dot = 0 THEN mant ELSE SubSeq(mant, 1, dot - 1),
                IF dot = 0 THEN <<>> ELSE SubSeq(mant, dot + 1, Len(mant)),
                hasexp, expo)

\* the unsigned literal split at its exponent mark
ParseUnsigned(neg, body, epos) ==
    ParseMantissa(neg,
                  IF epos = 0 THEN body ELSE SubSeq(body, 1, epos - 1),
                  IndexOf(IF epos = 0 THEN body
                          ELSE SubSeq(body, 1, epos - 1), {46}),
                  epos # 0,
                  IF epos = 0 THEN <<>>
                  ELSE SubSeq(body, epos + 1, Len(body)))

\* the words float() reads, in whatever letter case: inf, infinity, nan
ParseWord(neg, body, word) ==
    IF word \in {<<105, 110, 102>>,
                 <<105, 110, 102, 105, 110, 105, 116, 121>>}
    THEN Special(neg, "inf")
    ELSE IF word = <<110, 97, 110>> THEN Special(neg, "nan")
    ELSE ParseUnsigned(neg, body, IndexOf(body, {69, 101}))

\* the numeral after its sign
ParseSigned(neg, body) ==
    ParseWord(neg, body,
              [i \in 1..Len(body) |->
                  IF body[i] \in 65..90 THEN body[i] + 32 ELSE body[i]])

\* the numeral with its sign
ParseNumeral(n) ==
    IF n # <<>> /\ Head(n) \in {43, 45}
    THEN ParseSigned(Head(n) = 45, Tail(n))
    ELSE ParseSigned(FALSE, n)

\* float(string): an optional sign, then inf, infinity, nan or decimal
\* digits with an optional point and an optional exponent
ParseFloat(string) == ParseNumeral(Numeral(string))

\* the powers k of ten whose double float('1e<k>') is less than 10**k
LowPowers ==
    {23, 24, 28, 29, 31, 33, 34, 35, 37, 38, 39, 45, 46, 49, 51, 52, 53, 58,
    59, 60, 61, 65, 66, 67, 68, 72, 73, 74, 75, 77, 79, 81, 82, 87, 88, 89,
    90, 98, 99, 101, 102, 105, 107, 109, 111, 112, 118, 119, 120, 123, 124,
    125, 126, 127, 129, 131, 132, 134, 135, 145, 146, 147, 150, 153, 156,
    157, 158, 159, 162, 163, 165, 166, 168, 169, 171, 175, 179, 181, 183,
    185, 186, 187, 194, 195, 196, 197, 200, 202, 203, 204, 208, 210, 211,
    212, 213, 214, 215, 217, 219, 220, 224, 225, 226, 228, 229, 233, 237,
    239, 247, 249, 250, 253, 254, 255, 259, 261, 267, 268, 271, 273, 274,
    275, 278, 283, 285, 291, 293, 295, 296, 298, 304, 305, 307}

\* the power of ten of the first digit of the number with the significant
\* digits m, the last of them of the power x of ten
DecimalExponent(m, x) == Len(m) - 1 + x

\* a double holds the numbers of up to MaxDigits significant digits apart
MaxDigits == 15

\* the first MaxDigits digits of a number
Lead(m) == [i \in 1..MaxDigits |-> IF i <= Len(m) THEN m[i] ELSE 0]

\* the least digits that float() reads as inf with the exponent 308, and
\* the least it does not read as 0.0 with the exponent -324
INF_DIGITS == <<1, 7, 9, 7, 6, 9, 3, 1, 3, 4, 8, 6, 2, 3, 2>>
MIN_DIGITS == <<2, 4, 7, 0, 3, 2, 8, 2, 2, 9, 2, 0, 6, 2, 4>>

\* float() gives inf for the number of digits m and decimal exponent e
IsInf(m, e) == e > 308 \/ (e = 308 /\ ~StrLess(Lead(m), INF_DIGITS))

\* float() gives 0.0 for the nonzero number of digits m and decimal exponent e
IsZero(m, e) == e < -324 \/ (e = -324 /\ StrLess(Lead(m), MIN_DIGITS))

\* for the exponents e = -323..-308 (row e + 324), the number halfway
\* between the double of 10**e and the subnormal double before it: the power
\* of ten of its first digit and its first 17 digits (others follow); float()
\* reads the numbers above it as a double that is not below 10**e
LeastOf == <<
    <<-324, <<7, 4, 1, 0, 9, 8, 4, 6, 8, 7, 6, 1, 8, 6, 9, 8, 1>>>>,
    <<-323, <<9, 6, 3, 4, 2, 8, 0, 0, 9, 3, 9, 0, 4, 3, 0, 7, 6>>>>,
    <<-322, <<9, 9, 5, 5, 4, 2, 2, 7, 6, 3, 7, 0, 1, 1, 1, 7, 8>>>>,
    <<-321, <<9, 9, 9, 7, 4, 1, 8, 3, 4, 3, 5, 9, 7, 6, 2, 3, 8>>>>,
    <<-320, <<9, 9, 9, 9, 6, 4, 1, 6, 3, 9, 0, 0, 3, 9, 0, 9, 4>>>>,
    <<-319, <<9, 9, 9, 9, 9, 6, 2, 7, 8, 1, 6, 7, 3, 7, 0, 6, 2>>>>,
    <<-318, <<9, 9, 9, 9, 9, 9, 9, 8, 3, 6, 5, 9, 7, 1, 4, 4, 3>>>>,
    <<-317, <<9, 9, 9, 9, 9, 9, 9, 5, 8, 9, 5, 6, 4, 3, 2, 1, 4>>>>,
    <<-316, <<9, 9, 9, 9, 9, 9, 9, 9, 6, 0, 1, 1, 3, 5, 5, 5, 7>>>>,
    <<-315, <<9, 9, 9, 9, 9, 9, 9, 9, 9, 7, 1, 6, 8, 4, 7, 9, 2>>>>,
    <<-314, <<9, 9, 9, 9, 9, 9, 9, 9, 9, 9, 8, 8, 5, 8, 4, 0, 2>>>>,
    <<-313, <<9, 9, 9, 9, 9, 9, 9, 9, 9, 9, 9, 5, 9, 9, 5, 0, 1>>>>,
    <<-312, <<9, 9, 9, 9, 9, 9, 9, 9, 9, 9, 9, 9, 7, 0, 0, 5, 0>>>>,
    <<-311, <<9, 9, 9, 9, 9, 9, 9, 9, 9, 9, 9, 9, 9, 7, 2, 2, 4>>>>,
    <<-310, <<9, 9, 9, 9, 9, 9, 9, 9, 9, 9, 9, 9, 9, 9, 9, 4, 1>>>>,
    <<-309, <<9, 9, 9, 9, 9, 9, 9, 9, 9, 9, 9, 9, 9, 9, 9, 6, 6>>>> >>

\* a number of more than MaxDigits digits whose first MaxDigits digits are
\* next to a boundary of float() or of round(): the double read decides, and
\* that is outside the model
Boundary(m) ==
    /\ Len(m) > MaxDigits
    /\ \/ m[3] = 5 /\ \A i \in 4..MaxDigits : m[i] = 0
       \/ m[1] = 1 /\ \A i \in 2..MaxDigits : m[i] = 0
       \/ m[3] = 4 /\ \A i \in 4..MaxDigits : m[i] = 9
       \/ \A i \in 1..MaxDigits : m[i] = 9
       \/ \E d \in {INF_DIGITS, MIN_DIGITS} :
             /\ \A i \in 1..(MaxDigits - 1) : m[i] = d[i]
             /\ m[MaxDigits] = d[MaxDigits] - 1
       \/ \E i \in 1..Len(LeastOf) :
             /\ Len(m) > Len(LeastOf[i][2])
             /\ SubSeq(m, 1, Len(LeastOf[i][2])) = LeastOf[i][2]

\* float() of the number of digits m and decimal exponent d, a subnormal
\* double, is not below 10**e, e one of -323..-308
Reaches(m, d, e) ==
    \/ d > LeastOf[e + 324][1]
    \/ /\ d = LeastOf[e + 324][1]
       /\ ~StrLess(m, LeastOf[e + 324][2])
       /\ m # LeastOf[e + 324][2]

\* exponent(n) of the finite double n # 0 that float() reads in the number
\* with the significant digits m, the last of them of the power x of ten:
\* the power of ten of the first digit of the number; one less where n is
\* the double of a power of ten that is less than the power (n >= 10**(e+1)
\* compares with the int); one more where the number is rounded to a
\* subnormal double that is not below the next power of ten
exponent(m, x) ==
    CASE /\ ~Boundary(m)
         /\ ~IsInf(m, DecimalExponent(m, x))
         /\ ~IsZero(m, DecimalExponent(m, x)) ->
        IF m = <<1>> /\ x \in LowPowers THEN x - 1
        ELSE IF /\ DecimalExponent(m, x) < -308
                /\ Reaches(m, DecimalExponent(m, x), DecimalExponent(m, x) + 1)
        THEN DecimalExponent(m, x) + 1
        ELSE DecimalExponent(m, x)

\* round(num*10**-(3*i), 1 - r) of a number that lies halfway between two
\* results, by exponent e = -30..32 (row e + 31): the two leading digits q
\* for which the double product is rounded up to q + 1
HalfUp == <<
    {10, 15, 16, 17, 18, 19, 20, 23, 27, 28, 32, 33, 34, 35, 36, 37, 38, 39,
     40, 41, 44, 47, 49, 54, 57, 59, 61, 63, 64, 65, 66, 67, 68, 69, 70, 71,
     72, 73, 74, 75, 76, 77, 78, 79, 80, 81, 83, 86, 87, 91, 96, 97},
    {11, 13, 14, 15, 17, 19, 21, 23, 25, 27, 29, 31, 33, 35, 37, 39, 41, 43,
     45, 47, 49, 51, 53, 55, 57, 59, 61, 62, 63, 65, 67, 69, 71, 73, 75, 77,
     79, 81, 83, 85, 87, 89, 91, 93, 95, 96, 97, 98, 99},
    {11, 12, 13, 15, 17, 19, 20, 21, 24, 25, 27, 29, 31, 33, 35, 37, 39, 41,
     43, 44, 45, 47, 49, 51, 53, 55, 57, 59, 60, 61, 63, 65, 67, 69, 71, 73,
     75, 77, 79, 83, 85, 87, 89, 91, 92, 93, 94, 95, 97, 99},
    {10, 15, 17, 18, 23, 27, 33, 34, 37, 38, 39, 44, 47, 49, 54, 57, 59, 64,
     66, 67, 68, 69, 71, 73, 74, 76, 77, 79, 80, 81, 84, 85, 86, 87, 89, 90,
     91, 94, 95, 96, 97, 99},
    {11, 13, 15, 17, 19, 21, 23, 25, 27, 29, 31, 33, 35, 37, 39, 41, 43, 45,
     47, 49, 51, 53, 55, 57, 59, 61, 63, 65, 67, 69, 71, 73, 75, 77, 79, 81,
     83, 85, 87, 89, 91, 93, 95, 97, 99},
    {11, 13, 15, 17, 19, 21, 25, 27, 29, 31, 33, 35, 37, 39, 41, 44, 45, 47,
     49, 50, 51, 53, 55, 57, 59, 61, 63, 65, 67, 69, 71, 73, 75, 77, 79, 81,
     83, 85, 88, 89, 91, 94, 95, 97, 99},
    {10, 11, 13, 15, 23, 24, 25, 27, 28, 29, 30, 34, 36, 37, 39, 44, 47, 49,
     54, 57, 66, 69, 77, 79, 81, 85, 87, 91, 95, 97},
    {11, 15, 17, 19, 21, 23, 25, 27, 30, 31, 33, 35, 37, 39, 41, 43, 45, 47,
     49, 51, 53, 54, 55, 59, 61, 63, 65, 67, 69, 71, 73, 77, 79, 81, 83, 85,
     87, 89, 91, 93, 95, 97, 99},
    {13, 15, 17, 19, 21, 23, 25, 27, 29, 31, 33, 35, 37, 39, 41, 44, 45, 48,
     49, 51, 53, 55, 57, 59, 61, 63, 65, 67, 69, 71, 73, 75, 77, 79, 83, 87,
     89, 91, 95, 97, 98, 99},
    {10, 13, 16, 17, 18, 23, 24, 27, 29, 30, 33, 34, 37, 38, 39, 41, 44, 46,
     47, 49, 51, 54, 56, 57, 58, 61, 63, 66, 67, 68, 69, 73, 74, 77, 78, 79,
     81, 84, 86, 87, 89, 91, 96, 97},
    {11, 13, 15, 17, 19, 21, 23, 25, 29, 31, 33, 35, 37, 39, 41, 43, 45, 47,
     49, 51, 53, 54, 55, 58, 59, 62, 63, 65, 67, 69, 71, 73, 75, 77, 79, 81,
     83, 85, 87, 89, 91, 93, 95, 97, 99},
    {12, 13, 15, 17, 19, 21, 23, 25, 27, 29, 31, 33, 35, 37, 39, 41, 43, 44,
     45, 46, 47, 51, 53, 55, 57, 59, 61, 63, 65, 67, 69, 71, 73, 75, 77, 79,
     81, 83, 85, 87, 89, 91, 92, 93, 96, 97},
    {10, 11, 15, 16, 17, 18, 24, 26, 27, 29, 31, 33, 34, 35, 37, 38, 41, 44,
     47, 49, 51, 54, 56, 57, 59, 63, 64, 66, 67, 69, 72, 73, 75, 76, 77, 78,
     79, 81, 84, 85, 87, 90, 91, 96, 97, 98, 99},
    {11, 13, 14, 15, 17, 19, 21, 23, 25, 27, 29, 30, 31, 33, 35, 37, 39, 41,
     43, 45, 47, 49, 51, 53, 55, 56, 57, 59, 61, 62, 63, 65, 67, 69, 71, 73,
     75, 77, 79, 81, 83, 85, 87, 89, 91, 93, 95, 97, 99},
    {11, 12, 13, 15, 17, 19, 21, 23, 25, 27, 29, 31, 33, 35, 37, 39, 41, 43,
     44, 45, 47, 51, 53, 55, 57, 59, 61, 63, 65, 67, 69, 71, 73, 75, 77, 79,
     81, 83, 85, 87, 89, 91, 93, 97, 99},
    {13, 14, 15, 17, 18, 19, 20, 23, 24, 27, 28, 33, 34, 35, 37, 41, 44, 46,
     47, 48, 49, 54, 57, 59, 61, 63, 64, 65, 66, 67, 72, 74, 77, 79, 81, 85,
     86, 87, 89, 90, 91, 96, 97},
    {11, 13, 14, 15, 17, 19, 21, 23, 25, 27, 29, 30, 31, 33, 35, 37, 39, 41,
     43, 45, 47, 49, 51, 53, 55, 59, 61, 65, 67, 69, 71, 73, 75, 77, 79, 81,
     83, 85, 87, 89, 91, 93, 95, 97, 99},
    {13, 15, 17, 19, 21, 23, 24, 25, 27, 29, 31, 33, 35, 37, 39, 41, 43, 45,
     46, 47, 49, 51, 53, 55, 57, 59, 61, 63, 65, 67, 69, 71, 73, 75, 77, 79,
     81, 83, 85, 87, 89, 91, 93, 95, 97},
    {10, 14, 15, 16, 17, 18, 23, 27, 28, 29, 30, 33, 34, 37, 38, 44, 47, 55,
     56, 57, 58, 59, 60, 61, 63, 64, 66, 67, 68, 69, 71, 73, 74, 75, 76, 77,
     78, 79, 80, 81, 83, 84, 85, 86, 87, 89, 90, 91, 94, 95, 96, 97, 99},
    {11, 13, 15, 17, 19, 21, 23, 25, 27, 29, 31, 33, 35, 37, 39, 41, 43, 45,
     47, 49, 51, 53, 55, 57, 58, 59, 62, 63, 65, 67, 69, 71, 73, 75, 77, 79,
     81, 83, 85, 87, 89, 91, 93, 95, 97, 99},
    {11, 12, 13, 15, 17, 19, 21, 23, 25, 27, 29, 31, 33, 35, 37, 39, 41, 43,
     45, 47, 49, 51, 53, 55, 57, 59, 61, 63, 65, 67, 69, 71, 73, 75, 77, 79,
     81, 83, 85, 87, 89, 91, 93, 96, 97, 99},
    {10, 13, 15, 16, 17, 18, 19, 20, 23, 24, 25, 26, 27, 28, 41, 44, 46, 47,
     54, 56, 57, 58, 59, 60, 64, 66, 67, 68, 69, 71, 76, 77, 78, 79, 81, 85,
     86, 87, 89, 90, 94, 96, 97},
    {11, 13, 15, 17, 19, 21, 23, 25, 27, 29, 30, 33, 35, 37, 39, 41, 43, 45,
     47, 49, 51, 53, 55, 57, 59, 60, 61, 63, 65, 67, 69, 71, 73, 75, 77, 79,
     81, 83, 85, 87, 89, 91, 93, 95, 97, 99},
    {11, 13, 15, 17, 19, 21, 23, 25, 27, 29, 31, 33, 35, 37, 39, 41, 43, 45,
     47, 49, 50, 51, 53, 55, 57, 59, 61, 63, 65, 67, 69, 71, 73, 75, 77, 79,
     81, 83, 85, 87, 89, 91, 93, 95, 96, 97, 98, 99},
    {13, 14, 15, 16, 17, 18, 21, 23, 25, 27, 29, 33, 34, 36, 37, 38, 39, 41,
     44, 46, 47, 48, 49, 54, 56, 57, 59, 61, 63, 64, 67, 69, 71, 74, 77, 79,
     81, 84, 86, 87, 89, 91, 95, 96, 97, 98},
    {11, 13, 15, 17, 19, 21, 23, 25, 27, 29, 31, 33, 35, 37, 39, 41, 43, 45,
     47, 49, 51, 53, 55, 57, 59, 61, 63, 65, 67, 69, 71, 73, 75, 77, 79, 81,
     83, 85, 87, 89, 91, 93, 95, 97, 99},
    {11, 13, 15, 17, 19, 21, 23, 25, 27, 29, 31, 33, 35, 37, 39, 41, 43, 45,
     47, 49, 51, 53, 55, 57, 59, 61, 63, 65, 67, 69, 71, 73, 75, 77, 79, 81,
     83, 85, 87, 89, 91, 93, 95, 97, 99},
    {10, 13, 15, 17, 18, 20, 23, 25, 27, 28, 30, 33, 35, 37, 38, 39, 41, 44,
     47, 48, 49, 51, 54, 57, 58, 59, 61, 64, 65, 67, 68, 71, 74, 75, 77, 79,
     80, 85, 86, 87, 90, 91, 93, 96, 97, 99},
    {11, 13, 15, 17, 19, 21, 23, 25, 27, 29, 31, 33, 35, 37, 39, 41, 43, 45,
     47, 49, 51, 53, 55, 57, 59, 61, 63, 65, 67, 69, 71, 73, 75, 77, 79, 81,
     83, 85, 87, 89, 91, 93, 95, 97, 99},
    {11, 13, 15, 17, 19, 21, 23, 25, 27, 29, 31, 33, 35, 37, 39, 41, 43, 45,
     47, 49, 51, 53, 55, 57, 59, 61, 63, 65, 67, 69, 71, 73, 75, 77, 79, 81,
     83, 85, 87, 89, 91, 93, 95, 97, 99},
    {10, 13, 15, 17, 18, 23, 24, 27, 28, 29, 33, 34, 37, 38, 39, 41, 44, 46,
     47, 49, 51, 54, 56, 57, 59, 61, 64, 66, 67, 69, 71, 74, 76, 77, 79, 80,
     81, 85, 86, 87, 90, 91, 95, 96, 97},
    {11, 13, 15, 17, 19, 21, 23, 25, 27, 29, 31, 33, 35, 37, 39, 41, 43, 45,
     47, 49, 51, 53, 55, 57, 59, 61, 63, 65, 67, 69, 71, 73, 75, 77, 79, 81,
     83, 85, 87, 89, 91, 93, 95, 97, 99},
    {11, 13, 15, 17, 19, 21, 23, 25, 27, 29, 31, 33, 35, 37, 39, 41, 43, 45,
     47, 49, 51, 53, 55, 57, 59, 61, 63, 65, 67, 69, 71, 73, 75, 77, 79, 81,
     83, 85, 87, 89, 91, 93, 95, 97, 99},
    {10, 11, 13, 15, 16, 17, 18, 23, 24, 25, 27, 28, 29, 30, 33, 34, 35, 37,
     38, 39, 41, 43, 44, 46, 47, 48, 49, 51, 53, 54, 56, 57, 58, 59, 61, 63,
     64, 66, 67, 68, 69, 71, 73, 74, 76, 77, 78, 79, 80, 81, 85, 86, 87, 89,
     90, 91, 94, 95, 96, 97, 99},
    {11, 13, 15, 17, 19, 21, 23, 25, 27, 29, 31, 33, 35, 37, 39, 41, 43, 45,
     47, 49, 51, 53, 55, 57, 59, 61, 63, 65, 67, 69, 71, 73, 75, 77, 79, 81,
     83, 85, 87, 89, 91, 93, 95, 97, 99},
    {11, 13, 15, 17, 19, 21, 23, 25, 27, 29, 31, 33, 35, 37, 39, 41, 43, 45,
     47, 49, 51, 53, 55, 57, 59, 61, 63, 65, 67, 69, 71, 73, 75, 77, 79, 81,
     83, 85, 87, 89, 91, 93, 95, 97, 99},
    {10, 17, 23, 27, 28, 37, 44, 47, 49, 54, 57, 67, 77, 81, 86, 87, 91, 96,
     97},
    {11, 13, 15, 17, 19, 21, 23, 25, 27, 29, 31, 33, 35, 37, 39, 41, 43, 45,
     47, 49, 51, 53, 55, 57, 59, 61, 63, 65, 67, 69, 71, 73, 75, 77, 79, 81,
     83, 85, 87, 89, 91, 93, 95, 97, 99},
    {11, 13, 15, 17, 19, 21, 23, 25, 27, 29, 31, 33, 35, 37, 39, 41, 43, 45,
     47, 49, 51, 53, 55, 57, 59, 61, 63, 65, 67, 69, 71, 73, 75, 77, 79, 81,
     83, 85, 87, 89, 91, 93, 95, 97, 99},
    {10, 11, 13, 14, 15, 16, 17, 18, 19, 20, 21, 23, 24, 25, 26, 27, 28, 29,
     30, 31, 33, 34, 35, 36, 37, 38, 39, 41, 43, 44, 45, 46, 47, 48, 49, 50,
     51, 53, 54, 55, 56, 57, 58, 59, 60, 61, 63, 64, 65, 66, 67, 68, 69, 70,
     71, 72, 73, 74, 75, 76, 77, 78, 79, 80, 81, 84, 85, 86, 87, 88, 89, 90,
     91, 93, 94, 95, 96, 97, 98, 99},
    {11, 13, 14, 15, 17, 19, 21, 23, 25, 27, 29, 30, 31, 33, 35, 37, 39, 41,
     43, 45, 47, 49, 51, 53, 55, 57, 58, 59, 60, 61, 62, 63, 65, 67, 69, 71,
     73, 75, 77, 79, 81, 83, 85, 87, 89, 91, 93, 95, 97, 99},
    {11, 12, 13, 15, 17, 19, 21, 23, 24, 25, 27, 29, 31, 33, 35, 37, 39, 41,
     43, 45, 46, 47, 48, 49, 50, 51, 53, 55, 57, 59, 61, 63, 65, 67, 69, 71,
     73, 75, 77, 79, 81, 83, 85, 87, 89, 91, 92, 93, 94, 95, 96, 97, 98, 99},
    {10, 15, 17, 23, 27, 28, 33, 37, 38, 41, 44, 47, 49, 54, 57, 59, 64, 67,
     69, 74, 77, 79, 80, 81, 85, 86, 87, 91, 96, 97},
    {11, 13, 15, 17, 19, 21, 23, 25, 27, 29, 31, 33, 35, 37, 39, 41, 43, 45,
     47, 49, 51, 53, 55, 57, 59, 61, 63, 65, 67, 69, 71, 73, 75, 77, 79, 81,
     83, 85, 87, 89, 91, 93, 95, 97, 99},
    {11, 13, 15, 17, 19, 21, 23, 25, 27, 29, 31, 33, 35, 37, 39, 41, 43, 45,
     47, 49, 51, 53, 55, 57, 59, 61, 63, 65, 67, 69, 71, 73, 75, 77, 79, 81,
     83, 85, 87, 89, 91, 93, 95, 97, 99},
    {10, 11, 13, 14, 15, 16, 17, 18, 19, 20, 21, 23, 24, 25, 26, 27, 28, 29,
     30, 31, 32, 33, 34, 35, 36, 37, 38, 39, 40, 41, 43, 44, 45, 46, 47, 48,
     49, 50, 51, 53, 54, 55, 56, 57, 58, 59, 60, 61, 62, 63, 64, 65, 66, 67,
     68, 69, 70, 71, 72, 73, 74, 75, 76, 77, 78, 79, 80, 81, 83, 84, 85, 86,
     87, 88, 89, 90, 91, 93, 94, 95, 96, 97, 98, 99},
    {11, 12, 13, 14, 15, 17, 19, 21, 23, 24, 25, 26, 27, 28, 29, 30, 31, 33,
     35, 37, 39, 41, 43, 45, 46, 47, 48, 49, 50, 51, 52, 53, 54, 55, 56, 57,
     58, 59, 60, 61, 62, 63, 65, 67, 69, 71, 73, 75, 77, 79, 81, 83, 85, 87,
     89, 91, 92, 93, 94, 95, 96, 97, 98, 99},
    {10, 11, 12, 13, 15, 17, 18, 19, 20, 21, 22, 23, 24, 25, 27, 29, 31, 33,
     35, 37, 38, 39, 40, 41, 42, 43, 44, 45, 46, 47, 48, 49, 50, 51, 53, 55,
     57, 59, 61, 63, 65, 67, 69, 71, 73, 74, 75, 76, 77, 78, 79, 80, 81, 82,
     83, 84, 85, 86, 87, 88, 89, 90, 91, 92, 93, 94, 95, 96, 97, 98, 99},
    {10, 11, 13, 14, 15, 16, 17, 18, 19, 20, 21, 23, 24, 25, 26, 27, 28, 29,
     30, 31, 32, 33, 34, 35, 36, 37, 38, 39, 40, 41, 43, 44, 45, 46, 47, 48,
     49, 50, 51, 53, 54, 55, 56, 57, 58, 59, 60, 61, 62, 63, 64, 65, 66, 67,
     68, 69, 70, 71, 72, 73, 74, 75, 76, 77, 78, 79, 80, 81, 83, 84, 85, 86,
     87, 88, 89, 90, 91, 93, 94, 95, 96, 97, 98, 99},
    {11, 12, 13, 14, 15, 17, 19, 21, 23, 25, 26, 27, 28, 29, 30, 31, 33, 35,
     37, 39, 41, 43, 45, 47, 49, 50, 51, 52, 53, 54, 55, 56, 57, 58, 59, 60,
     61, 62, 63, 65, 67, 69, 71, 73, 75, 77, 79, 81, 83, 85, 87, 89, 91, 93,
     95, 97, 99},
    {10, 11, 12, 13, 15, 17, 19, 20, 21, 22, 23, 24, 25, 27, 29, 31, 33, 35,
     37, 39, 40, 41, 42, 43, 44, 45, 46, 47, 48, 49, 50, 51, 53, 55, 57, 59,
     61, 63, 65, 67, 69, 71, 73, 75, 77, 79, 80, 81, 82, 83, 84, 85, 86, 87,
     88, 89, 90, 91, 92, 93, 94, 95, 96, 97, 98, 99},
    {47, 49, 51, 57, 59, 61, 67, 69, 77, 79, 81, 87, 91, 97},
    {11, 13, 15, 17, 19, 21, 23, 25, 27, 29, 33, 35, 37, 41, 45, 49, 65, 69,
     73, 79, 81, 87, 95},
    {17, 25, 27, 31, 33, 45, 47, 51, 53, 63, 69, 73, 77, 87, 91},
    {10, 15, 17, 24, 27, 28, 37, 38, 44, 47, 49, 56, 69, 81, 87, 96, 97},
    {17, 19, 21, 25, 27, 33, 35, 37, 41, 47, 51, 53, 57, 63, 67, 69, 73, 77,
     79, 81, 83, 89, 91, 93},
    {11, 13, 15, 29, 43, 45, 47, 49, 51, 53, 55, 57, 59, 61, 65, 69, 71, 75,
     79, 83, 87, 91, 95, 99},
    {10, 11, 14, 15, 17, 18, 20, 23, 24, 25, 26, 27, 28, 29, 31, 32, 33, 34,
     37, 38, 39, 40, 41, 43, 44, 46, 47, 48, 49, 50, 53, 54, 55, 56, 57, 59,
     60, 61, 64, 65, 66, 67, 69, 71, 72, 73, 74, 76, 77, 78, 79, 80, 81, 83,
     84, 85, 86, 87, 89, 90, 91, 94, 95, 96, 97, 99},
    {11, 13, 14, 15, 17, 19, 21, 23, 25, 26, 27, 28, 29, 30, 31, 33, 35, 37,
     39, 41, 43, 45, 47, 49, 50, 51, 52, 53, 54, 55, 56, 57, 58, 59, 60, 61,
     62, 63, 65, 67, 69, 71, 73, 75, 77, 79, 81, 83, 85, 87, 89, 91, 93, 95,
     97, 99},
    {10, 11, 12, 13, 15, 17, 19, 20, 21, 22, 23, 24, 25, 27, 29, 31, 33, 35,
     37, 39, 40, 41, 42, 43, 44, 45, 46, 47, 48, 49, 51, 53, 55, 57, 59, 61,
     63, 65, 67, 69, 71, 73, 75, 77, 79, 81, 82, 83, 84, 85, 86, 87, 88, 89,
     90, 91, 92, 93, 94, 95, 96, 97, 98, 99},
    {10, 11, 13, 15, 16, 17, 18, 19, 20, 21, 23, 24, 25, 26, 27, 28, 29, 30,
     31, 32, 33, 34, 35, 36, 37, 38, 39, 41, 43, 44, 45, 46, 47, 48, 49, 50,
     51, 53, 54, 55, 56, 57, 58, 59, 60, 61, 62, 63, 64, 66, 67, 68, 69, 70,
     71, 72, 73, 74, 75, 76, 77, 78, 79, 80, 81, 83, 84, 85, 86, 87, 89, 90,
     91, 93, 94, 95, 96, 97, 98, 99},
    {11, 12, 13, 14, 15, 17, 19, 20, 21, 23, 24, 25, 26, 27, 29, 30, 31, 32,
     33, 35, 36, 37, 39, 41, 43, 44, 45, 46, 47, 49, 50, 51, 52, 53, 55, 57,
     58, 59, 60, 61, 63, 64, 65, 67, 69, 70, 71, 73, 75, 76, 77, 78, 79, 81,
     82, 83, 85, 87, 88, 89, 91, 92, 93, 94, 95, 97, 98, 99},
    {10, 11, 13, 15, 16, 17, 18, 19, 21, 22, 23, 24, 25, 27, 29, 30, 31, 33,
     34, 35, 36, 37, 38, 39, 40, 41, 43, 45, 47, 48, 49, 50, 51, 52, 53, 55,
     57, 59, 61, 63, 64, 65, 66, 67, 69, 70, 71, 72, 73, 75, 76, 77, 79, 80,
     81, 83, 84, 85, 86, 87, 88, 89, 90, 91, 93, 94, 95, 97, 98, 99} >>

\* the two leading digits q of a number with further digits rest, rounded as
\* round(num*10**-(3*i), 1 - r) rounds (100 when the rounding carries)
RoundAt(q, rest, e) ==
    IF rest[1] < 5 THEN q
    ELSE IF rest[1] > 5 \/ Len(rest) > 1 THEN q + 1
    ELSE IF q \in HalfUp[e + 31] THEN q + 1
    ELSE q

\* round(num*10**-(3*i), 1 - r) as the two leading digits of the result:
\* 100 for a power of ten with the exponent e of one less
Round2(m, x, e) ==
    IF Len(m) = 1 THEN (IF e < x THEN 100 ELSE 10 * m[1])
    ELSE IF Len(m) = 2 THEN 10 * m[1] + m[2]
    ELSE RoundAt(10 * m[1] + m[2], SubSeq(m, 3, Len(m)), e)

\* the digits and the prefix of short_float: i = e//3 # 0 within the
\* prefixes or 0, r = e%3, q the rounded leading digits
Render(neg, i, r, q) ==
    (IF neg THEN <<45>> ELSE <<>>) \o
    (CASE r = 0 -> Decimal(q \div 10) \o <<46>> \o Decimal(q % 10)
       [] r = 1 -> Decimal(q)
       [] r = 2 -> Decimal(10 * q)) \o
    (CASE i = 0 -> <<>>
       [] i > 0 -> <<POS_PREFIXES[i]>>
       [] i < 0 -> <<NEG_PREFIXES[0 - i]>>)

\* short_float of the finite number f # 0 read from string, e =
\* exponent(num): the string is returned past the last prefix
ShortOf(string, f, e) ==
    IF (IF e < 0 THEN 0 - (e \div 3) ELSE e \div 3) > Len(POS_PREFIXES)
    THEN string
    ELSE Render(f.neg, e \div 3, e % 3, Round2(f.m, f.x, e))

\* short_float(num) of the number f that float() reads in string: two
\* significant digits and an SI prefix; inf and a zero are returned as they
\* were written
ShortFloat(string, f) ==
    CASE ~Boundary(f.m) ->
        IF f.kind = "nan" THEN <<110, 97, 110>>
        ELSE IF \/ f.kind = "inf" \/ f.m = <<>>
                \/ IsInf(f.m, DecimalExponent(f.m, f.x))
                \/ IsZero(f.m, DecimalExponent(f.m, f.x))
        THEN string
        ELSE ShortOf(string, f, exponent(f.m, f.x))

\* short_float raises: ValueError of float(), or OverflowError of
\* num*10**-(3*i) where 10**-(3*i) is an int above the doubles
Raises(f) ==
    \/ ~f.ok
    \/ /\ f.kind = "num" /\ f.m # <<>> /\ ~Boundary(f.m)
       /\ ~IsInf(f.m, DecimalExponent(f.m, f.x))
       /\ ~IsZero(f.m, DecimalExponent(f.m, f.x))
       /\ exponent(f.m, f.x) <= -307

short_float(string) ==
    CASE ~Raises(ParseFloat(string)) -> ShortFloat(string, ParseFloat(string))

\* num[:-1] + f'e-{3*(index+1)}' or f'e+{3*(index+1)}' for an SI prefix
Expanded(num, front, neg, pos) ==
    IF neg # 0 THEN front \o <<101, 45>> \o Decimal(3 * neg)
    ELSE IF pos # 0 THEN front \o <<101, 43>> \o Decimal(3 * pos)
    ELSE num

\* short_float in the try block: the string is kept when it raises
TryShort(string, num, f) == IF Raises(f) THEN string ELSE ShortFloat(num, f)

AdjustExpanded(string, num) == TryShort(string, num, ParseFloat(num))

\* adjust_float(num) of a non-empty string
adjust_float(num) ==
    AdjustExpanded(num,
                   Expanded(num, SubSeq(num, 1, Len(num) - 1),
                            IndexOf(NEG_PREFIXES, {num[Len(num)]}),
                            IndexOf(POS_PREFIXES, {num[Len(num)]})))

\* ---------------------------------------------------------------- dataset

\* countries.json: the records of the dataset, in file order.  Strings are
\* code-point sequences: "A" is <<65>>, "P, Q" is <<80, 44, 32, 81>>.
countries == <<
    [name |-> [common |-> <<65>>, official |-> <<65, 97>>],
     capital |-> << <<81>>, <<80>> >>, flag |-> <<102, 65>>,
     languages |-> << <<120>>, <<121>> >>, cca2 |-> <<65, 49>>,
     cca3 |-> <<65, 65, 65>>, region |-> <<69>>, subregion |-> <<78>>,
     borders |-> << <<66, 66, 66>> >>, area |-> 20000, independent |-> TRUE],
    [name |-> [common |-> <<66>>, official |-> <<66, 98>>],
     capital |-> << <<82>> >>, flag |-> <<102, 66>>,
     languages |-> << <<120>> >>, cca2 |-> <<66, 49>>,
     cca3 |-> <<66, 66, 66>>, region |-> <<69>>, subregion |-> <<83>>,
     borders |-> << <<65, 65, 65>> >>, area |-> 5000, independent |-> TRUE],
    [name |-> [common |-> <<67>>, official |-> <<67, 99>>],
     capital |-> << <<84>> >>, flag |-> <<102, 67>>,
     languages |-> << <<122>> >>, cca2 |-> <<67, 49>>,
     cca3 |-> <<67, 67, 67>>, region |-> <<70>>, subregion |-> <<87>>,
     borders |-> <<>>, area |-> 2000000, independent |-> FALSE] >>

\* ------------------------------------------------------------------ menus

topics == <<"capital", "flag", "languages", "two-letter code",
            "three-letter code", "region", "subregion", "borders", "area">>

limits == <<"independence", "location", "size", "island or not">>

\* [f'country -> {topic}', f'country <- {topic}']
directions == <<"country -> topic", "country <- topic">>

sizes == <<"big", "large", "small">>

\* ------------------------------------------------------------ input lines

\* no line has been read yet
NoInput == <<0>>

\* "", " ", a no-break space
BlankLines == {<<>>, <<SPACE>>, <<160>>}

\* "x", "0", "1,2", "5", superscript two: not a valid single choice of two
BadLines == {<<120>>, <<48>>, <<49, 44, 50>>, <<53>>, <<178>>}

\* "1", "2"
TwoLines == {<<49>>, <<50>>}

\* "1" capital, "6" region, "8" borders
TopicLines == {<<49>>, <<54>>, <<56>>}

\* "1", "2", "3", "4", "1,4", "4, 1", "1, 2", "1,x": selections of limits
LimitLines == {<<49>>, <<50>>, <<51>>, <<52>>, <<49, 44, 52>>,
               <<52, 44, 32, 49>>, <<49, 44, 32, 50>>, <<49, 44, 120>>}

\* "1", "2", "3"
SizeLines == {<<49>>, <<50>>, <<51>>}

\* "1", "2", "1,2", "2, 1"
LocationsLines == {<<49>>, <<50>>, <<49, 44, 50>>, <<50, 44, 32, 49>>}

\* ------------------------------------------------------------ read_input

\* read_input(True, multiple) on a line that is not blank: the token list
Tokens(ln, multiple) ==
    IF multiple THEN StripAll(Split(strip(ln))) ELSE <<strip(ln)>>

\* a read_input that tests the line before it is stripped
IsBlankUnstripped(ln) == ln = <<>>

\* read_input raises InputException
IsBlank(ln) == strip(ln) = <<>>

\* ----------------------------------------------------------- choose_opts

\* the uncaught exceptions of a run
IntError == "ValueError: invalid literal for int()"
RemoveError == "ValueError: list.remove(x): x not in list"

\* the for loop of choose_opts over the tokens still to read; choice is the
\* set collected so far
RECURSIVE ScanTokens(_, _, _, _)
ScanTokens(tokens, choices, multiple, choice) ==
    IF tokens = <<>> THEN [kind |-> "ok", msg |-> "", choice |-> choice]
    ELSE LET token == Head(tokens) IN
         IF isdigit(token)
         THEN IF ~IsInt(token)
              THEN [kind |-> "crash", msg |-> IntError, choice |-> {}]
              ELSE LET idx == IntValue(token) - 1 IN
                   IF ~(0 <= idx /\ idx < Len(choices))
                   THEN [kind |-> "error", msg |-> "not a valid option index",
                         choice |-> {}]
                   ELSE ScanTokens(Tail(tokens), choices, multiple,
                                   choice \cup {choices[idx + 1]})
         ELSE [kind |-> "error",
               msg |-> IF DELIM \in Range(token) /\ ~multiple
                       THEN "Only one option index is accepted"
                       ELSE "Only option indices are accepted",
               choice |-> {}]

\* one pass of the while loop of choose_opts on the line read:
\* kind "abort" (InputException), "crash" (uncaught exception msg),
\* "error" (errmsg printed, the loop repeats) or "ok" (the set chosen)
choose_opts(choices, multiple, ln) ==
    IF IsBlank(ln) THEN [kind |-> "abort", msg |-> "", choice |-> {}]
    ELSE ScanTokens(Tokens(ln, multiple), choices, multiple, {})

\* the one element of a single choice
TheOne(S) == CHOOSE x \in S : TRUE

\* ------------------------------------------------------- state of main()

VARIABLES
    pc,              \* the prompt or step main() is at
    out,             \* the last message printed
    line,            \* the last line read by input()
    topic, ask_topic, name, limit, condition_list, choice, location,
    locations, size, island, conditions,
    options,
    questions, answers,
    n_opts, no_opts, var_opts, multiple_answers, multiple_tokens,
    questionnaire, n_mistakes, tot_n_questions,
    question, answer, drawn, reply

cfgv == <<topic, ask_topic, name, limit, condition_list, choice, location,
          locations, size, island, conditions>>
derv == <<questions, answers>>
modev == <<n_opts, no_opts, var_opts, multiple_answers, multiple_tokens>>
roundv == <<questionnaire, n_mistakes, tot_n_questions, question, answer,
            drawn, reply>>
vars == <<pc, out, line, cfgv, options, derv, modev, roundv>>

\* a local of main() that has not been assigned yet
Unbound == "unbound"

\* main() after print(INFO_MSG) and the header of the topic prompt.  The
\* flags that are unbound in Python are FALSE, the numbers 0, the lists empty.
Init ==
    /\ pc = "topic" /\ out = "prompt" /\ line = NoInput
    /\ topic = Unbound /\ ask_topic = FALSE /\ name = Unbound
    /\ limit = Unbound /\ condition_list = {} /\ choice = Unbound
    /\ location = Unbound /\ locations = <<>> /\ size = Unbound
    /\ island = Unbound /\ conditions = <<>>
    /\ options = <<>>
    /\ questions = <<>> /\ answers = <<>>
    /\ n_opts = 0 /\ no_opts = FALSE /\ var_opts = FALSE
    /\ multiple_answers = FALSE /\ multiple_tokens = FALSE
    /\ questionnaire = <<>> /\ n_mistakes = 0 /\ tot_n_questions = 0
    /\ question = <<>> /\ answer = {} /\ drawn = <<>> /\ reply = <<>>

\* --------------------------------------------------- configuration prompts

\* choose_opts did not return on this line: InputException unwinds main(),
\* another exception kills it, or errmsg is printed and the loop repeats
Fail(r, ln) ==
    /\ line' = ln
    /\ pc' = CASE r.kind = "abort" -> "aborted"
               [] r.kind = "crash" -> "crashed"
               [] OTHER -> pc
    /\ out' = IF r.kind = "abort" THEN out ELSE r.msg
    /\ UNCHANGED <<cfgv, options, derv, modev, roundv>>

\* the prompt that follows in main() once the filters up to one are read
AfterSize(cl) == IF "island or not" \in cl THEN "island" ELSE "derive"
AfterLocation(cl) == IF "size" \in cl THEN "size" ELSE AfterSize(cl)
AfterIndependent(cl) == IF "location" \in cl THEN "location" ELSE AfterLocation(cl)
AfterLimits(cl) == IF "independence" \in cl THEN "independent" ELSE AfterIndependent(cl)

\* printed on the way to the next read: the header of the next prompt, or
\* nothing new when the derivation comes next
Header(next) == IF next = "derive" THEN out ELSE "prompt"

\* topic = choose_opts('topic', topics)
ChooseTopic ==
    /\ pc = "topic"
    /\ \E ln \in BlankLines \cup BadLines \cup TopicLines :
          LET r == choose_opts(topics, FALSE, ln) IN
          IF r.kind # "ok" THEN Fail(r, ln)
          ELSE /\ topic' = TheOne(r.choice)
               /\ pc' = "direction" /\ out' = "prompt" /\ line' = ln
               /\ UNCHANGED <<ask_topic, name, limit, condition_list, choice,
                              location, locations, size, island, conditions,
                              options, derv, modev, roundv>>

\* direction = choose_opts('direction', ...); ask_topic = ' -> ' in direction
ChooseDirection ==
    /\ pc = "direction"
    /\ \E ln \in BlankLines \cup BadLines \cup TwoLines :
          LET r == choose_opts(directions, FALSE, ln) IN
          IF r.kind # "ok" THEN Fail(r, ln)
          ELSE /\ ask_topic' = (TheOne(r.choice) = "country -> topic")
               /\ pc' = "name" /\ out' = "prompt" /\ line' = ln
               /\ UNCHANGED <<topic, name, limit, condition_list, choice,
                              location, locations, size, island, conditions,
                              options, derv, modev, roundv>>

\* name = choose_opts('country names', ['common', 'official'])
ChooseName ==
    /\ pc = "name"
    /\ \E ln \in BlankLines \cup BadLines \cup TwoLines :
          LET r == choose_opts(<<"common", "official">>, FALSE, ln) IN
          IF r.kind # "ok" THEN Fail(r, ln)
          ELSE /\ name' = TheOne(r.choice)
               /\ pc' = "limit" /\ out' = "prompt" /\ line' = ln
               /\ UNCHANGED <<topic, ask_topic, limit, condition_list, choice,
                              location, locations, size, island, conditions,
                              options, derv, modev, roundv>>

\* limit = choose_opts('limit questions', ['no', 'yes'])
ChooseLimit ==
    /\ pc = "limit"
    /\ \E ln \in BlankLines \cup BadLines \cup TwoLines :
          LET r == choose_opts(<<"no", "yes">>, FALSE, ln) IN
          IF r.kind # "ok" THEN Fail(r, ln)
          ELSE /\ limit' = TheOne(r.choice)
               /\ pc' = IF limit' = "yes" THEN "limits" ELSE "derive"
               /\ out' = Header(pc') /\ line' = ln
               /\ UNCHANGED <<topic, ask_topic, name, condition_list, choice,
                              location, locations, size, island, conditions,
                              options, derv, modev, roundv>>

\* condition_list = choose_opts('limiting conditions', limits, True); the
\* joined string is only searched for the four names, so it is kept as the
\* set of the names chosen
ChooseLimits ==
    /\ pc = "limits"
    /\ \E ln \in BlankLines \cup BadLines \cup LimitLines :
          LET r == choose_opts(limits, TRUE, ln) IN
          IF r.kind # "ok" THEN Fail(r, ln)
          ELSE /\ condition_list' = r.choice
               /\ pc' = AfterLimits(r.choice)
               /\ out' = Header(pc') /\ line' = ln
               /\ UNCHANGED <<topic, ask_topic, name, limit, choice,
                              location, locations, size, island, conditions,
                              options, derv, modev, roundv>>

\* choice = choose_opts('independent', ['yes', 'no']) and its condition
ChooseIndependent ==
    /\ pc = "independent"
    /\ \E ln \in BlankLines \cup BadLines \cup TwoLines :
          LET r == choose_opts(<<"yes", "no">>, FALSE, ln) IN
          IF r.kind # "ok" THEN Fail(r, ln)
          ELSE /\ choice' = TheOne(r.choice)
               /\ conditions' = Append(conditions,
                      [kind |-> "independent", yes |-> (choice' = "yes"),
                       field |-> "", values |-> {}])
               /\ pc' = AfterIndependent(condition_list)
               /\ out' = Header(pc') /\ line' = ln
               /\ UNCHANGED <<topic, ask_topic, name, limit, condition_list,
                              location, locations, size, island,
                              options, derv, modev, roundv>>

\* country[location]
Field(country, loc) ==
    IF loc = "region" THEN country.region ELSE country.subregion

\* location = choose_opts('location', ['region', 'subregion']);
\* options = sorted(set(country[location] for ... if country[location]))
ChooseLocation ==
    /\ pc = "location"
    /\ \E ln \in BlankLines \cup BadLines \cup TwoLines :
          LET r == choose_opts(<<"region", "subregion">>, FALSE, ln) IN
          IF r.kind # "ok" THEN Fail(r, ln)
          ELSE /\ location' = TheOne(r.choice)
               /\ options' = SortedSet(
                      {Field(countries[i], location') : i \in 1..Len(countries)}
                      \ {<<>>})
               /\ pc' = "locations" /\ out' = "prompt" /\ line' = ln
               /\ UNCHANGED <<topic, ask_topic, name, limit, condition_list,
                              choice, locations, size, island, conditions,
                              derv, modev, roundv>>

\* locations = choose_opts(location, options, True).split(DELIM + ' ')
ChooseLocations ==
    /\ pc = "locations"
    /\ \E ln \in BlankLines \cup BadLines \cup LocationsLines :
          LET r == choose_opts(options, TRUE, ln) IN
          IF r.kind # "ok" THEN Fail(r, ln)
          ELSE /\ locations' = SplitSep(arr2strSet(r.choice))
               /\ conditions' = Append(conditions,
                      [kind |-> "location", yes |-> TRUE,
                       field |-> location, values |-> Range(locations')])
               /\ pc' = AfterLocation(condition_list)
               /\ out' = Header(pc') /\ line' = ln
               /\ UNCHANGED <<topic, ask_topic, name, limit, condition_list,
                              choice, location, size, island,
                              options, derv, modev, roundv>>

\* size = choose_opts('size', [...]) and its condition
ChooseSize ==
    /\ pc = "size"
    /\ \E ln \in BlankLines \cup BadLines \cup SizeLines :
          LET r == choose_opts(sizes, FALSE, ln) IN
          IF r.kind # "ok" THEN Fail(r, ln)
          ELSE /\ size' = TheOne(r.choice)
               /\ conditions' = Append(conditions,
                      [kind |-> "size", yes |-> TRUE,
                       field |-> size', values |-> {}])
               /\ pc' = AfterSize(condition_list)
               /\ out' = Header(pc') /\ line' = ln
               /\ UNCHANGED <<topic, ask_topic, name, limit, condition_list,
                              choice, location, locations, island,
                              options, derv, modev, roundv>>

\* island = choose_opts('island', ['no', 'yes']); the condition is built
\* from the variable choice, which is unbound (UnboundLocalError) when the
\* independence filter was not selected
ChooseIsland ==
    /\ pc = "island"
    /\ \E ln \in BlankLines \cup BadLines \cup TwoLines :
          LET r == choose_opts(<<"no", "yes">>, FALSE, ln) IN
          IF r.kind # "ok" THEN Fail(r, ln)
          ELSE /\ island' = TheOne(r.choice)
               /\ line' = ln
               /\ IF choice = Unbound
                  THEN /\ pc' = "crashed" /\ out' = "UnboundLocalError"
                       /\ UNCHANGED conditions
                  ELSE /\ conditions' = Append(conditions,
                              [kind |-> "borders", yes |-> (choice = "yes"),
                               field |-> "", values |-> {}])
                       /\ pc' = "derive" /\ UNCHANGED out
               /\ UNCHANGED <<topic, ask_topic, name, limit, condition_list,
                              choice, location, locations, size,
                              options, derv, modev, roundv>>

\* ------------------------------------------------------- pair derivation

\* one appended condition (a lambda of main) applied to a record
Holds(cond, country) ==
    CASE cond.kind = "independent" ->
             IF cond.yes THEN country.independent ELSE ~country.independent
      [] cond.kind = "location" -> Field(country, cond.field) \in cond.values
      [] cond.kind = "size" ->
             (CASE cond.field = "big" -> country.area >= 10000
                [] cond.field = "large" -> country.area >= 1000000
                [] cond.field = "small" -> country.area < 10000)
      [] cond.kind = "borders" ->
             IF cond.yes THEN country.borders # <<>> ELSE country.borders = <<>>

\* condition = lambda country: all(cond(country) for cond in conditions)
condition(conds, country) ==
    \A i \in 1..Len(conds) : Holds(conds[i], country)

\* country[key]
Data(country, t) ==
    CASE t = "capital" -> country.capital
      [] t = "flag" -> country.flag
      [] t = "languages" -> country.languages
      [] t = "two-letter code" -> country.cca2
      [] t = "three-letter code" -> country.cca3
      [] t = "region" -> country.region
      [] t = "subregion" -> country.subregion
      [] t = "borders" -> country.borders
      [] t = "area" -> country.area

\* check(data)
check(t, data) ==
    CASE t = "languages" -> Len(data) > 0
      [] t = "borders" -> TRUE
      [] t = "area" -> data >= 0
      [] OTHER -> data # <<>>

\* code2country[code]
code2country(code) ==
    LET i == CHOOSE j \in 1..Len(countries) : countries[j].cca3 = code
    IN  countries[i].name.common

\* convert(data)
convert(t, data) ==
    CASE t \in {"capital", "languages"} -> arr2str(data)
      [] t = "borders" ->
             arr2str([i \in 1..Len(data) |-> code2country(data[i])])
      [] t \in {"flag", "two-letter code", "three-letter code", "region",
                "subregion"} -> data
      [] t = "area" -> short_float(Decimal(data))

\* topic = 'area (in km²)': the topic as main() names it after the branch
AreaTopic == "area (in km²)"

Renamed(t) == IF t = "area" THEN AreaTopic ELSE t

\* single_token
single_token(t) == t \notin {"capital", "languages", "borders"}

\* the records that pass the condition and the check, in dataset order
Selected(conds, t) ==
    SelectSeq(countries,
              LAMBDA country : /\ condition(conds, country)
                               /\ check(t, Data(country, t)))

\* arr1: country['name'][name] of the selected records
Names(conds, t, nm) ==
    LET sel == Selected(conds, t) IN [i \in 1..Len(sel) |-> sel[i].name[nm]]

\* arr2: convert(data), or NONE when that is empty
Values(conds, t) ==
    LET sel == Selected(conds, t) IN
    [i \in 1..Len(sel) |->
        LET data == convert(t, Data(sel[i], t)) IN
        IF data # <<>> THEN data ELSE NONE]

\* a check of the number of pairs instead of the number of distinct answers
NotEnoughPairs(as) == Len(as) < 2

\* answer_set = set(answers); n_answers = len(answer_set); n_answers < 2
NotEnough(as) == Cardinality(Range(as)) < 2

\* the lines of main() from the composed condition to the check of n_answers
Derive ==
    /\ pc = "derive"
    /\ questions' = IF ask_topic THEN Names(conditions, topic, name)
                    ELSE Values(conditions, topic)
    /\ answers' = IF ask_topic THEN Values(conditions, topic)
                  ELSE Names(conditions, topic, name)
    /\ IF NotEnough(answers')
       THEN pc' = "aborted" /\ out' = "Not enough possible answer options"
       ELSE pc' = "n_opts" /\ out' = "prompt"
    /\ topic' = Renamed(topic)
    /\ UNCHANGED <<line, ask_topic, name, limit, condition_list, choice,
                   location, locations, size, island, conditions, options,
                   modev, roundv>>

\* --------------------------------------------------------------- choose_int

\* "0", ..., "9", "10", "11", "x", "-2", "+2", " 3 ", "0_2"
NOptsLines == {<<d>> : d \in 48..57} \cup
              {<<49, 48>>, <<49, 49>>, <<120>>, <<45, 50>>, <<43, 50>>,
               <<SPACE, 51, SPACE>>, <<48, 95, 50>>}

\* one pass of the while loop of choose_int on the line read
choose_int(lower, upper, other, ln) ==
    IF IsBlank(ln) THEN [kind |-> "abort", msg |-> "", choice |-> 0]
    ELSE IF ~IsInt(strip(ln))
    THEN \* errmsg, then lower <= choice compares an int with a str
         [kind |-> "crash", msg |-> "TypeError", choice |-> 0]
    ELSE LET n == IntValue(strip(ln)) IN
         IF ~((lower <= n /\ n <= upper) \/ n \in other)
         THEN [kind |-> "error", msg |-> "The integer should be one of",
               choice |-> 0]
         ELSE [kind |-> "ok", msg |-> "", choice |-> n]

Min(a, b) == IF a < b THEN a ELSE b

\* zip(questions, answers) as a list
Zip(qs, as) == [i \in 1..Min(Len(qs), Len(as)) |-> <<qs[i], as[i]>>]

\* [0] if len(set(questions)) == len(questions) else []
Other(qs) == IF Cardinality(Range(qs)) = Len(qs) THEN {0} ELSE {}

\* multiple answers when the topic is asked
MultipleAnswersAsked(n, n_answers, ask) == IF n = n_answers THEN FALSE ELSE ask

\* multiple answers that are not reset when n_opts == n_answers
MultipleAnswersNoReset(n, n_answers, ask) == ~ask

\* multiple_answers = not ask_topic, reset to False when n_opts == n_answers
MultipleAnswers(n, n_answers, ask) == IF n = n_answers THEN FALSE ELSE ~ask

\* multiple tokens when the country is asked
MultipleTokensCountry(ask, t) == ~ask /\ ~single_token(t)

\* multiple_tokens = ask_topic and not single_token
MultipleTokens(ask, t) == ask /\ ~single_token(t)

\* n_opts = choose_int('number of options', ...), the mode flags, the
\* questionnaire and the counters
ChooseNOpts ==
    /\ pc = "n_opts"
    /\ \E ln \in BlankLines \cup NOptsLines :
          LET n_answers == Cardinality(Range(answers))
              r == choose_int(2, Min(MAX_N_OPTS, n_answers), Other(questions),
                              ln)
          IN
          IF r.kind # "ok" THEN Fail(r, ln)
          ELSE /\ n_opts' = r.choice
               /\ line' = ln
               /\ IF n_opts' > 0
                  THEN /\ no_opts' = FALSE
                       /\ var_opts' = (n_opts' # n_answers)
                       /\ multiple_answers' =
                              MultipleAnswers(n_opts', n_answers, ask_topic)
                       /\ options' = IF n_opts' = n_answers
                                     THEN SortedSet(Range(answers)) ELSE options
                       /\ UNCHANGED multiple_tokens
                  ELSE /\ no_opts' = TRUE
                       /\ multiple_tokens' = MultipleTokens(ask_topic, topic)
                       /\ multiple_answers' = FALSE
                       /\ UNCHANGED <<var_opts, options>>
               /\ questionnaire' = Zip(questions, answers)
               /\ n_mistakes' = 0
               /\ tot_n_questions' = Len(questionnaire')
               /\ pc' = "loop" /\ out' = "There are questions"
               /\ UNCHANGED <<cfgv, derv, question, answer, drawn, reply>>

\* ---------------------------------------------------------------- the quiz

\* "1", "2", "3", "1,2", "2, 1", "1,3", "0", "4", "x", "1,x", superscript
\* two, "1,0", the Arabic-Indic digit three
IndexLines == {<<49>>, <<50>>, <<51>>, <<49, 44, 50>>, <<50, 44, SPACE, 49>>,
               <<49, 44, 51>>, <<48>>, <<52>>, <<120>>, <<49, 44, 120>>,
               <<178>>, <<49, 44, 48>>, <<1635>>}

\* "P, Q", "Q,P", "q, p", "R", "T", "A", "B", "C", "a", "Aa", "Bb", "Cc",
\* "E", "F", "-", "A,B", "p, Q", A with a ring above
FreeLines == {<<80, 44, SPACE, 81>>, <<81, 44, 80>>, <<113, 44, SPACE, 112>>,
              <<112, 44, SPACE, 81>>, <<197>>,
              <<82>>, <<84>>, <<65>>, <<66>>, <<67>>, <<97>>, <<65, 97>>,
              <<66, 98>>, <<67, 99>>, <<69>>, <<70>>, <<45>>, <<65, 44, 66>>}

\* the largest area of the range of areas the area quiz is run on
MaxArea == 1000

\* the areas of the dataset of the area quiz: a range, and two larger ones
Areas == 0..MaxArea \cup {9996, 357022}

\* convert(data) of each area
Canonical == [v \in Areas |-> short_float(Decimal(v))]

\* "357000", "357k", "360k", "0.36M", "10k", "1.0k", "9.996k", "x"
AreaForms == {<<51, 53, 55, 48, 48, 48>>, <<51, 53, 55, 107>>,
              <<51, 54, 48, 107>>, <<48, 46, 51, 54, 77>>, <<49, 48, 107>>,
              <<49, 46, 48, 107>>, <<57, 46, 57, 57, 54, 107>>, <<120>>}

\* the lines typed at an area question: the decimal literals of the areas
\* whose canonical string is the accepted answer, that string itself and
\* the fixed forms
AreaLines(accepted) ==
    {Decimal(v) : v \in {w \in Areas : Canonical[w] \in accepted}}
        \cup accepted \cup AreaForms

\* the lines typed at a free-text question
TextLines == IF topic = AreaTopic THEN AreaLines(answer) ELSE FreeLines

\* adjust(data): the identity with options; without, adjust_float for the
\* area topic and adjust_str for the others
adjust(data) ==
    IF ~no_opts THEN data
    ELSE IF topic = AreaTopic THEN adjust_float(data)
    ELSE adjust_str(data)

\* list.remove(x): the list without the first x
RECURSIVE Remove(_, _)
Remove(list, x) ==
    IF list = <<>> THEN <<>>
    ELSE IF Head(list) = x THEN Tail(list)
    ELSE <<Head(list)>> \o Remove(Tail(list), x)

\* for answer in sorted(answer): questionnaire.remove((question, answer))
\* over the non-empty list as: ok is FALSE when a remove raised ValueError,
\* list is the list then, and answer the string the loop variable is left
\* bound to
RECURSIVE RemoveEach(_, _, _)
RemoveEach(list, q, as) ==
    IF <<q, Head(as)>> \notin Range(list)
    THEN [ok |-> FALSE, list |-> list, answer |-> Head(as)]
    ELSE IF Len(as) = 1
    THEN [ok |-> TRUE, list |-> Remove(list, <<q, Head(as)>>),
          answer |-> Head(as)]
    ELSE RemoveEach(Remove(list, <<q, Head(as)>>), q, Tail(as))

\* the end of the while loop: the final report
Report ==
    /\ pc = "loop"
    /\ questionnaire = <<>>
    /\ pc' = "done" /\ out' = "Congratulations"
    /\ UNCHANGED <<line, cfgv, options, derv, modev, roundv>>

\* question, answer = random.choice(questionnaire); answer = {answer};
\* with variable options, options = {*answer}
Draw ==
    /\ pc = "loop"
    /\ questionnaire # <<>>
    /\ \E i \in 1..Len(questionnaire) :
          /\ drawn' = questionnaire[i]
          /\ question' = questionnaire[i][1]
          /\ answer' = {questionnaire[i][2]}
          /\ IF ~no_opts /\ var_opts
             THEN /\ options' = <<questionnaire[i][2]>>
                  /\ pc' = IF Len(options') < n_opts THEN "sample" ELSE "ask"
             ELSE pc' = "ask" /\ UNCHANGED options
          /\ out' = IF pc' = "ask" THEN "prompt" ELSE out
    /\ UNCHANGED <<line, cfgv, derv, modev, questionnaire, n_mistakes,
                   tot_n_questions, reply>>

\* a sampling loop that adds the option without looking for it
AlwaysFresh(option, opts) == TRUE

\* option not in options
Fresh(option, opts) == option \notin Range(opts)

\* one pass of the sampling loop: choice = random.randint(0, len(answers)-1).
\* options is the Python set in insertion order until it is sorted for display
Sample ==
    /\ pc = "sample"
    /\ \E c \in 1..Len(answers) :
          LET option == answers[c]
              fresh == Fresh(option, options)
              other == question # questions[c]
          IN
          /\ answer' = IF fresh /\ ~other /\ multiple_answers
                       THEN answer \cup {option} ELSE answer
          /\ LET added == IF fresh /\ (other \/ multiple_answers)
                          THEN Append(options, option) ELSE options
             IN  IF Len(added) < n_opts
                 THEN options' = added /\ UNCHANGED <<pc, out>>
                 ELSE options' = sorted(added) /\ pc' = "ask" /\ out' = "prompt"
    /\ UNCHANGED <<line, cfgv, derv, modev, questionnaire, n_mistakes,
                   tot_n_questions, question, drawn, reply>>

\* the comparison of the submitted answer and what follows it; after a
\* correct answer the for loop leaves answer bound to a string, the last
\* accepted answer it took
Judge(ln, submitted) ==
    /\ line' = ln
    /\ reply' = submitted
    /\ IF adjust(submitted) = adjust(arr2strSet(answer))
       THEN LET rm == RemoveEach(questionnaire, question, SortedSet(answer)) IN
            /\ questionnaire' = rm.list
            /\ answer' = rm.answer
            /\ IF rm.ok THEN pc' = "loop" /\ out' = "Right!"
               ELSE pc' = "crashed" /\ out' = RemoveError
            /\ UNCHANGED n_mistakes
       ELSE /\ n_mistakes < MaxMistakes
            /\ n_mistakes' = n_mistakes + 1
            /\ pc' = "loop" /\ out' = "Wrong!"
            /\ UNCHANGED <<questionnaire, answer>>
    /\ UNCHANGED <<cfgv, options, derv, modev, tot_n_questions, question,
                   drawn>>

\* choice = choose(head, multiple_tokens) and the comparison
AnswerText ==
    /\ pc = "ask" /\ no_opts
    /\ \E ln \in BlankLines \cup TextLines :
          IF IsBlank(ln)
          THEN Fail([kind |-> "abort", msg |-> "", choice |-> {}], ln)
          ELSE Judge(ln, arr2str(Tokens(ln, multiple_tokens)))

\* choice = choose_opts(head, options, multiple_answers) and the comparison
AnswerOpts ==
    /\ pc = "ask" /\ ~no_opts
    /\ \E ln \in BlankLines \cup IndexLines :
          LET r == choose_opts(options, multiple_answers, ln) IN
          IF r.kind # "ok" THEN Fail(r, ln)
          ELSE Judge(ln, arr2strSet(r.choice))

Next ==
    \/ ChooseTopic \/ ChooseDirection \/ ChooseName \/ ChooseLimit
    \/ ChooseLimits \/ ChooseIndependent \/ ChooseLocation \/ ChooseLocations
    \/ ChooseSize \/ ChooseIsland
    \/ Derive \/ ChooseNOpts
    \/ Report \/ Draw \/ Sample \/ AnswerText \/ AnswerOpts

Spec == Init /\ [][Next]_vars

\* ------------------------------------------- the option-count prompt alone

\* the largest number of pairs the prompt is tried on
MaxU == 9

\* main() at the number-of-options prompt with U pairs of distinct answers
\* "A", "B", ... (countries) asked from their regions, which are all distinct
\* ("a", "b", ...) or shared by the first two pairs; no filter was selected
InitOpts ==
    \E U \in 2..MaxU, shared \in BOOLEAN :
        /\ pc = "n_opts" /\ out = "prompt" /\ line = <<49>>
        /\ topic = "region" /\ ask_topic = FALSE /\ name = "common"
        /\ limit = "no" /\ condition_list = {} /\ choice = Unbound
        /\ location = Unbound /\ locations = <<>> /\ size = Unbound
        /\ island = Unbound /\ conditions = <<>>
        /\ options = <<>>
        /\ questions = [i \in 1..U |->
                           IF shared /\ i = 1 THEN <<98>> ELSE <<96 + i>>]
        /\ answers = [i \in 1..U |-> <<64 + i>>]
        /\ n_opts = 0 /\ no_opts = FALSE /\ var_opts = FALSE
        /\ multiple_answers = FALSE /\ multiple_tokens = FALSE
        /\ questionnaire = <<>> /\ n_mistakes = 0 /\ tot_n_questions = 0
        /\ question = <<>> /\ answer = {} /\ drawn = <<>> /\ reply = <<>>

NextOpts == ChooseNOpts

SpecOpts == InitOpts /\ [][NextOpts]_vars

\* ------------------------------------------------------ the area quiz alone

\* "2000000" and its canonical string "2.0M"
TwoMillion == Decimal(2000000)
TwoMega == short_float(TwoMillion)

\* main() in the quiz loop of a free-text session that asks the areas of two
\* countries, "Aa" of an area of Areas and "Bb" of area 2000000, after the
\* area of "Bb" was typed and accepted; no filter was selected
InitArea ==
    \E a \in Areas :
        /\ pc = "loop" /\ out = "Right!" /\ line = TwoMillion
        /\ topic = AreaTopic /\ ask_topic = TRUE /\ name = "common"
        /\ limit = "no" /\ condition_list = {} /\ choice = Unbound
        /\ location = Unbound /\ locations = <<>> /\ size = Unbound
        /\ island = Unbound /\ conditions = <<>>
        /\ options = <<>>
        /\ questions = << <<65, 97>>, <<66, 98>> >>
        /\ answers = <<Canonical[a], TwoMega>>
        /\ n_opts = 0 /\ no_opts = TRUE /\ var_opts = FALSE
        /\ multiple_answers = FALSE /\ multiple_tokens = FALSE
        /\ questionnaire = << <<questions[1], answers[1]>> >>
        /\ n_mistakes = 0 /\ tot_n_questions = 2
        /\ question = questions[2] /\ answer = TwoMega
        /\ drawn = <<questions[2], TwoMega>> /\ reply = TwoMillion

NextArea == Report \/ Draw \/ AnswerText

SpecArea == InitArea /\ [][NextArea]_vars

\* ------------------------------------------------- the sampling loop alone

\* the largest number of pairs the sampling loop is run on
MaxPairs == 4

\* main() at the start of the quiz loop of a session with variable options:
\* n pairs whose question labels are "a" or "b" and whose answers are among
\* "A", "B", ..., in either direction, with a count of options that the
\* number-of-options prompt accepts and that is not the number of unique
\* answers; no filter was selected
InitSample ==
    \E n \in 3..MaxPairs :
    \E qs \in [1..n -> {<<97>>, <<98>>}],
       as \in [1..n -> {<<64 + i>> : i \in 1..n}],
       ask \in BOOLEAN, count \in 2..MAX_N_OPTS :
        /\ count <= Min(MAX_N_OPTS, Cardinality(Range(as)))
        /\ count # Cardinality(Range(as))
        /\ pc = "loop" /\ out = "There are questions" /\ line = Decimal(count)
        /\ topic = "capital" /\ ask_topic = ask /\ name = "common"
        /\ limit = "no" /\ condition_list = {} /\ choice = Unbound
        /\ location = Unbound /\ locations = <<>> /\ size = Unbound
        /\ island = Unbound /\ conditions = <<>>
        /\ options = <<>>
        /\ questions = qs /\ answers = as
        /\ n_opts = count /\ no_opts = FALSE /\ var_opts = TRUE
        /\ multiple_answers =
               MultipleAnswers(count, Cardinality(Range(as)), ask)
        /\ multiple_tokens = FALSE
        /\ questionnaire = Zip(qs, as) /\ n_mistakes = 0
        /\ tot_n_questions = n
        /\ question = <<>> /\ answer = {} /\ drawn = <<>> /\ reply = <<>>

NextSample == Draw \/ Sample

SpecSample == InitSample /\ [][NextSample]_vars

\* ------------------------------------------------------------------ claims

\* the positions of main() inside the quiz loop
QuizPcs == {"loop", "sample", "ask"}

\* the pairs of the drawn question with the accepted answers
AcceptedPairs == {<<question, a>> : a \in answer}

\* a step in which the submitted answer was judged correct: "Right!" is
\* printed, or the removal that precedes it raises
JudgedCorrect == pc = "ask" /\ out' \in {"Right!", RemoveError}

\* a step in which the submitted answer was judged incorrect
JudgedWrong == pc = "ask" /\ out' = "Wrong!"

\* C1: in variable mode with multi-answer acceptance, when the submitted
\* answer is judged correct every pair (question, a), a an accepted answer,
\* is still in the remaining list, and exactly these pairs are removed.
C1_RemovesAcceptedPairs ==
    [][(JudgedCorrect /\ ~no_opts /\ var_opts /\ multiple_answers)
       => /\ AcceptedPairs \subseteq Range(questionnaire)
          /\ Range(questionnaire') = Range(questionnaire) \ AcceptedPairs
          /\ Len(questionnaire') = Len(questionnaire) - Cardinality(answer)
          /\ pc' = "loop"]_vars

\* C2: a session in which an answer is judged correct goes on to the next
\* round or to the final report: no run ends, after a correct answer, in a
\* state that is neither Complete nor Aborted.
C2_CorrectAnswersComplete ==
    ~(pc = "crashed" /\ out = RemoveError)

\* C3: an answer judged incorrect adds exactly 1 to the mistake count and
\* leaves the remaining list unchanged; an answer judged correct leaves the
\* mistake count unchanged and strictly shrinks the remaining list.
C3_RoundEffects ==
    [][/\ JudgedWrong => /\ n_mistakes' = n_mistakes + 1
                         /\ questionnaire' = questionnaire
       /\ JudgedCorrect => /\ n_mistakes' = n_mistakes
                           /\ Len(questionnaire') < Len(questionnaire)]_vars

\* a token that is the decimal numeral of an index in 1..n
ValidIndex(token, n) ==
    /\ token # <<>>
    /\ Range(token) \subseteq Digits
    /\ DigitsValue(token) \in 1..n

\* a submission at a prompt with n options that is not blank and has a token
\* that is no valid index (a single-choice line is one token)
Malformed(ln, n, multiple) ==
    /\ strip(ln) # <<>>
    /\ \E i \in 1..Len(Tokens(ln, multiple)) :
          ~ValidIndex(Tokens(ln, multiple)[i], n)

\* the messages of errmsg in choose_opts
OptsErrors == {"not a valid option index", "Only one option index is accepted",
               "Only option indices are accepted"}

\* C4: at a multiple-choice question prompt a malformed submission prints an
\* error and re-prompts the same question with the same options: no draw, no
\* change of the mistake count or of the remaining list.
C4_MalformedReprompts ==
    [][(pc = "ask" /\ ~no_opts
        /\ Malformed(line', Len(options), multiple_answers))
       => /\ pc' = "ask"
          /\ out' \in OptsErrors
          /\ UNCHANGED <<question, answer, drawn, options, questionnaire,
                         n_mistakes, reply>>]_vars

\* C5: a line that is empty once stripped, read at any prompt, ends the
\* session in that step: nothing is printed, no variable of the session
\* changes, and no step follows the end, so no prompt and no final report.
C5_EmptyInputAborts ==
    [][/\ strip(line') = <<>> =>
              /\ pc' = "aborted"
              /\ UNCHANGED <<out, cfgv, options, derv, modev, roundv>>
       /\ pc # "aborted"]_vars

\* the session was ended by a line of one no-break space in the middle of the
\* quiz
C5_Witness ==
    /\ pc = "aborted" /\ line = <<160>>
    /\ questionnaire # <<>> /\ Len(questionnaire) < tot_n_questions

\* C6: when the derived pairs have fewer than 2 distinct answers the error is
\* reported and the session ends with no option count asked and no quiz state
\* set up, and nothing follows the report; the option-count prompt and the
\* quiz loop are only entered with at least 2 distinct answers.
C6_NeedsTwoAnswers ==
    [][/\ pc = "derive" =>
              IF Cardinality(Range(answers')) < 2
              THEN /\ pc' = "aborted"
                   /\ out' = "Not enough possible answer options"
                   /\ UNCHANGED <<line, options, modev, roundv>>
              ELSE pc' = "n_opts"
       /\ pc' \in {"n_opts"} \cup QuizPcs =>
              Cardinality(Range(answers')) >= 2
       /\ out # "Not enough possible answer options"]_vars

\* two pairs were derived, with one distinct answer: the session ended
C6_Witness ==
    /\ pc = "aborted" /\ out = "Not enough possible answer options"
    /\ Len(answers) = 2 /\ Cardinality(Range(answers)) = 1

\* C7: in variable mode the options displayed contain the answer of the drawn
\* pair and every accepted answer, are pairwise distinct values of the answer
\* pool, and are exactly n_opts many.
C7_VariableOptions ==
    (pc = "ask" /\ ~no_opts /\ var_opts) =>
        /\ drawn[2] \in Range(options)
        /\ drawn[2] \in answer
        /\ answer \subseteq Range(options)
        /\ Cardinality(Range(options)) = Len(options)
        /\ Range(options) \subseteq Range(answers)
        /\ Len(options) = n_opts

\* options are displayed that hold a folded-in answer
C7_Witness ==
    /\ pc = "ask" /\ ~no_opts /\ var_opts
    /\ Cardinality(answer) = 2 /\ Len(options) = 2

\* C8 as stated: in variable mode multi-answer acceptance is enabled exactly
\* when the direction asks for the topic given the country.
C8_Original ==
    (pc \in QuizPcs /\ ~no_opts /\ var_opts) => (multiple_answers <=> ask_topic)

\* C8 amended: in variable mode multi-answer acceptance is enabled exactly
\* when the direction asks for the country given the topic value, and answers
\* are folded in only then.
C8_MultiAnswerWhenCountryAsked ==
    (pc \in QuizPcs /\ ~no_opts /\ var_opts) =>
        /\ multiple_answers <=> ~ask_topic
        /\ (pc \in {"sample", "ask"} /\ ask_topic) => Cardinality(answer) <= 1

\* two countries of one region were selected together and judged right
C8_Witness ==
    /\ pc = "loop" /\ out = "Right!" /\ ~no_opts /\ var_opts
    /\ ~ask_topic /\ multiple_answers /\ Len(SplitSep(reply)) = 2

\* the topics with several values
MultiValued == {"capital", "languages", "borders"}

\* C9 as stated: in free-text mode the line is split on the delimiter only
\* when the country is asked, following the multi-valued flag of the topic.
C9_Original ==
    (pc \in QuizPcs /\ no_opts) =>
        (multiple_tokens <=> (~ask_topic /\ topic \in MultiValued))

\* C9 amended: in free-text mode the line is split on the delimiter exactly
\* when the topic is asked and is multi-valued; when the country is asked the
\* stripped line is the answer as it is.
C9_SplitWhenTopicAsked ==
    /\ (pc \in QuizPcs /\ no_opts) =>
           (multiple_tokens <=> (ask_topic /\ topic \in MultiValued))
    /\ (pc = "loop" /\ no_opts /\ out \in {"Right!", "Wrong!"}) =>
           reply = IF ask_topic /\ topic \in MultiValued
                   THEN Join(sorted(StripAll(Split(strip(line)))))
                   ELSE strip(line)

\* the capitals typed as "Q,P" were accepted for "P, Q"
C9_Witness ==
    /\ pc = "loop" /\ no_opts /\ out = "Right!" /\ ask_topic
    /\ topic = "capital" /\ line = <<81, 44, 80>>

\* the question labels are all distinct
DistinctLabels == Cardinality(Range(questions)) = Len(questions)

\* exact mode
ExactMode == pc \in QuizPcs /\ ~no_opts /\ ~var_opts

\* C10: with U >= 2 unique answers, the number U is accepted at the
\* option-count prompt (and exact mode entered) if and only if the question
\* labels are all distinct: it is accepted whenever they are, whatever U is,
\* and exact mode is never entered when two questions share a label.
C10_ExactOnlyWhenDistinct ==
    LET U == Cardinality(Range(answers)) IN
    /\ (pc = "n_opts" /\ U >= 2) =>
           ((ENABLED (ChooseNOpts /\ n_opts' = U)) <=> DistinctLabels)
    /\ ExactMode => DistinctLabels

\* a step in which a submitted answer was compared with the accepted one
Judged == pc = "ask" /\ out' \in {"Right!", "Wrong!", RemoveError}

\* C11: in exact mode every round shows the same options, the sorted set of
\* the unique answers, with a single-select prompt whatever the topic and
\* the direction; the submission is judged correct exactly when the one
\* option selected is the answer of the drawn pair, and then exactly that
\* pair (one occurrence of it) is removed.
C11_ExactModeRounds ==
    [][/\ (pc' \in QuizPcs /\ ~no_opts' /\ ~var_opts') =>
              /\ options' = SortedSet(Range(answers'))
              /\ ~multiple_answers'
       /\ ExactMode => options' = options
       /\ (ExactMode /\ Judged) =>
              /\ answer = {drawn[2]}
              /\ \E i \in 1..Len(options) :
                    /\ DigitsValue(strip(line')) = i
                    /\ reply' = options[i]
              /\ out' = "Right!" <=> reply' = drawn[2]
              /\ out' # RemoveError
              /\ out' = "Right!" =>
                    \E k \in 1..Len(questionnaire) :
                        /\ questionnaire[k] = drawn
                        /\ questionnaire' =
                               SubSeq(questionnaire, 1, k - 1) \o
                               SubSeq(questionnaire, k + 1, Len(questionnaire))
              /\ out' = "Wrong!" => questionnaire' = questionnaire]_vars

\* in exact mode a country asked from its region was selected and judged
\* right, and one pair is gone
C11_Witness ==
    /\ pc = "loop" /\ ~no_opts /\ ~var_opts /\ ~ask_topic
    /\ topic = "region" /\ out = "Right!" /\ reply = drawn[2]
    /\ Len(questionnaire) = tot_n_questions - 1

\* the two leading digits q and the exponent e of a positive m * 10**x
\* rounded half to even (a carry to 100 is 10 with the next exponent)
Sig2Of(q, e) == IF q = 100 THEN <<10, e + 1>> ELSE <<q, e>>

\* the two leading digits q of a number with further digits rest, rounded
\* half to even
HalfEven(q, rest) ==
    IF rest[1] < 5 THEN q
    ELSE IF rest[1] > 5 \/ Len(rest) > 1 THEN q + 1
    ELSE IF q % 2 = 0 THEN q ELSE q + 1

Sig2Parsed(f) ==
    IF ~f.ok \/ f.kind # "num" \/ f.neg THEN <<>>
    ELSE IF f.m = <<>> THEN <<0, 0>>
    ELSE Sig2Of(IF Len(f.m) = 1 THEN 10 * f.m[1]
                ELSE IF Len(f.m) = 2 THEN 10 * f.m[1] + f.m[2]
                ELSE HalfEven(10 * f.m[1] + f.m[2], SubSeq(f.m, 3, Len(f.m))),
                DecimalExponent(f.m, f.x))

\* the two significant digits a typed number rounds to, <<>> if it is not a
\* number; a typed SI suffix (k, M, ...) is expanded first
Sig2(string) ==
    Sig2Parsed(ParseFloat(Expanded(string, SubSeq(string, 1, Len(string) - 1),
                                   0, IndexOf(POS_PREFIXES,
                                              {string[Len(string)]}))))

\* C12: at a free-text area question, a typed number (a decimal literal, the
\* canonical string or an SI-suffixed number) that rounds to the same two
\* significant digits as the area is judged correct, also when the rounding
\* carries into the next power of ten.
C12_AreaAnswersAccepted ==
    [][(/\ pc = "ask" /\ no_opts /\ ask_topic /\ topic = AreaTopic
        /\ Judged
        /\ Sig2(strip(line')) # <<>>
        /\ Sig2(strip(line')) = Sig2(drawn[2])) => out' = "Right!"]_vars

\* the records the island choice should pass: those without land borders
\* for 'yes', those with land borders for 'no'
IslandPasses(country) ==
    IF island = "yes" THEN country.borders = <<>> ELSE country.borders # <<>>

\* C13: once the island prompt is answered, the filter it contributes is
\* fixed by that answer alone: 'yes' passes exactly the records with an empty
\* borders list and 'no' exactly those with a non-empty one, whether or not
\* the independence filter was selected and whatever was chosen there.
C13_IslandByOwnChoice ==
    island # Unbound =>
        /\ pc # "crashed"
        /\ \E i \in 1..Len(conditions) :
              /\ conditions[i].kind = "borders"
              /\ \A j \in 1..Len(countries) :
                    Holds(conditions[i], countries[j])
                        <=> IslandPasses(countries[j])

\* C14: a step of the number-of-options prompt either ends the session on an
\* empty input, or prints an error and prompts again, or returns an integer
\* of 2..min(MAX_N_OPTS, number of unique answers) or 0, 0 only when the
\* question labels are all distinct; nothing else ends the session.
C14_OptionCountReprompts ==
    [][pc = "n_opts" =>
           \/ IsBlank(line') /\ pc' = "aborted"
           \/ /\ ~IsBlank(line') /\ pc' = "n_opts"
              /\ out' \in {"Only an integer is accepted",
                           "The integer should be one of"}
           \/ /\ ~IsBlank(line') /\ pc' = "loop"
              /\ \/ n_opts' \in
                        2..Min(MAX_N_OPTS, Cardinality(Range(answers)))
                 \/ n_opts' = 0 /\ DistinctLabels]_vars

\* the values the sampling loop can still add to the options of the round:
\* the answers of the pairs of another question, and with multiple answers
\* those of the pairs of the same question
Addable ==
    {answers[c] : c \in {k \in 1..Len(answers) :
                            question # questions[k] \/ multiple_answers}}

\* C15: while the sampling loop of a variable-mode round runs, the options
\* it has and the values it can add are together at least the requested
\* number of distinct values, so that under fair sampling the loop ends.
C15_SamplingCanFinish ==
    pc = "sample" => Cardinality(Range(options) \cup Addable) >= n_opts

\* C16: at a multiple-choice prompt, in exact and in variable mode, every
\* displayed option that the derived pairs give as an answer to the displayed
\* question is in the accepted-answer set of the round: no distractor is a
\* correct answer.
C16_NoCorrectDistractor ==
    (pc = "ask" /\ ~no_opts) =>
        \A i \in 1..Len(options) :
            <<question, options[i]>> \in Range(Zip(questions, answers))
                => options[i] \in answer

\* the normalized strings of a list, as a collection (least first)
Normalized(arr) == sorted([i \in 1..Len(arr) |-> adjust_str(arr[i])])

\* C17: at a free-text question with multi-token acceptance, a submission
\* whose tokens are, after normalization, the same collection as the
\* normalized components of the canonical answer is judged correct, whatever
\* the order of the tokens and their letter case or accents are.
C17_TokensAnyOrderAnyCase ==
    [][(/\ pc = "ask" /\ no_opts /\ multiple_tokens
        /\ Judged
        /\ Normalized(Tokens(line', TRUE))
               = Normalized(SplitSep(arr2strSet(answer))))
           => out' = "Right!"]_vars

====
